---- MODULE Spec2Model ----
(***************************************************************************)
(* A model of rlifesrc: the cell graph (world.rs), the neighbourhood       *)
(* descriptors and the implication table of non-totalistic rules           *)
(* (rules/ntlife/mod.rs), the cells (cells.rs) and the backtracking search *)
(* driver.  The driver (set_cell with a trail, proceed, assume, backtrack, *)
(* step) has no source file here; it is written after sections 4.3 and     *)
(* 4.4 of the specification.                                               *)
(***************************************************************************)
EXTENDS Integers, Sequences, FiniteSets, TLC

VARIABLES config, state, desc, gen0_cell_count, front_cell_count,
          trail, check_index, search_index, conflicts, status,
          input, output

\* config .. status: the world and its search.  input, output: what one of
\* the operations around the search (argument validation, rule parsing,
\* table construction, loading a save) is given and what it returns.
vars == <<config, state, desc, gen0_cell_count, front_cell_count,
          trail, check_index, search_index, conflicts, status,
          input, output>>

----------------------------------------------------------------------------
(* Bounds of the model. *)

\* Largest width and height of a world.
MaxSize == 2
\* Largest period of a world.
MaxPeriod == 2
\* Largest |dx| and |dy| of the translation.
MaxShift == 2
\* Largest max_cell_count that is tried.
MaxCount == 2
\* Largest number of cells of the search range, width * height * period.
MaxCells == 4
\* Largest number of entries of a save file that is loaded.
MaxStack == 2

----------------------------------------------------------------------------
(* States (cells.rs).  A cell's state is an Option<State>; None is 0, the  *)
(* pattern its descriptor slot holds.                                      *)

ALIVE == 1
DEAD == 2
UNKNOWN == 0

\* impl Not for State
Not(s) == IF s = ALIVE THEN DEAD ELSE ALIVE

\* The absent value of an Option<&LifeCell>.
NoCell == <<>>

\* No input given, no output returned.
NoValue == <<>>

----------------------------------------------------------------------------
(* Arithmetic on machine words. *)

RECURSIVE Pow2(_)
Pow2(n) == IF n = 0 THEN 1 ELSE 2 * Pow2(n - 1)

\* x << n
Shl(x, n) == x * Pow2(n)

\* bit n of x
Bit(x, n) == (x \div Pow2(n)) % 2

RECURSIVE Xor(_, _)
\* a ^ b
Xor(a, b) ==
    IF a = 0 THEN b
    ELSE IF b = 0 THEN a
    ELSE (((a % 2) + (b % 2)) % 2) + 2 * Xor(a \div 2, b \div 2)

RECURSIVE And(_, _)
\* a & b
And(a, b) ==
    IF a = 0 \/ b = 0 THEN 0
    ELSE ((a % 2) * (b % 2)) + 2 * And(a \div 2, b \div 2)

RECURSIVE PopCount(_)
PopCount(m) == IF m = 0 THEN 0 ELSE (m % 2) + PopCount(m \div 2)

\* The largest power of two that is at most u (u > 0):
\* u.next_power_of_two() >> usize::from(!u.is_power_of_two())
RECURSIVE HighBit(_)
HighBit(u) == IF u = 1 THEN 1 ELSE 2 * HighBit(u \div 2)

----------------------------------------------------------------------------
(* Configurations: what World::new is given. *)

Transforms == {"Id", "Rotate90", "Rotate180", "Rotate270",
               "FlipRow", "FlipCol", "FlipDiag", "FlipAntidiag"}

Symmetries == {"C1", "C2", "C4", "D2Row", "D2Col", "D2Diag", "D2Antidiag",
               "D4Ortho", "D4Diag", "D8"}

\* Transform::square_world: rotations other than 180 and diagonal flips.
TransformSquareWorld(tr) ==
    tr \in {"Rotate90", "Rotate270", "FlipDiag", "FlipAntidiag"}

\* Symmetry::square_world: the symmetries that exchange the two axes.
SymmetrySquareWorld(sy) ==
    sy \in {"C4", "D2Diag", "D2Antidiag", "D4Diag", "D8"}

\* The check without the test of the symmetry.
SquareCheck_transform_only(width, height, tr, sy) ==
    width = height \/ ~TransformSquareWorld(tr)

\* The check of Args::parse on the world's shape.
SquareCheck(width, height, tr, sy) ==
    width = height \/ (~TransformSquareWorld(tr) /\ ~SymmetrySquareWorld(sy))

Abs(x) == IF x < 0 THEN -x ELSE x

\* World::new, the search order: `order` is "Column", "Row" or "Automatic".
ColumnFirst(c) ==
    IF c.order = "Column" THEN TRUE
    ELSE IF c.order = "Row" THEN FALSE
    ELSE LET w == IF c.symmetry = "D2Col" THEN (c.width + 1) \div 2 ELSE c.width
             h == IF c.symmetry = "D2Row" THEN (c.height + 1) \div 2 ELSE c.height
         IN  IF w = h THEN Abs(c.dx) >= Abs(c.dy) ELSE w > h

----------------------------------------------------------------------------
(* Rules: the b and s data of NtLife::new, sets of 8-bit neighbourhoods. *)

Masks == 0..255

Count3 == {m \in Masks : PopCount(m) = 3}
Count23 == {m \in Masks : PopCount(m) \in {2, 3}}
Count03 == {m \in Masks : PopCount(m) \in {0, 3}}
Count2 == {m \in Masks : PopCount(m) = 2}
\* 2a with a pair of corners in place of a pair of adjacent neighbours.
Masks2a_with_corners == {3, 6, 9, 20, 40, 96, 144, 5}

\* 2a of an isotropic rule (parse.rs): two adjacent neighbours.
Masks2a == {3, 6, 9, 20, 40, 96, 144, 192}

RuleNames == {"B3/S23", "B03/S23", "B2a/S0", "B2/S"}

RuleB(r) ==
    CASE r = "B3/S23" -> Count3
      [] r = "B03/S23" -> Count03
      [] r = "B2a/S0" -> Masks2a
      [] r = "B2/S" -> Count2

RuleS(r) ==
    CASE r = "B3/S23" -> Count23
      [] r = "B03/S23" -> Count23
      [] r = "B2a/S0" -> {0}
      [] r = "B2/S" -> {}

\* let b0 = b.contains(&0)
has_b0(r) == 0 \in RuleB(r)

----------------------------------------------------------------------------
(* The cell graph (world.rs).  A cell is named by its coordinates. *)

Coords(c) ==
    {<<x, y, t>> : x \in -1..c.width, y \in -1..c.height, t \in 0..(c.period - 1)}

\* World::find_cell: the cell with these coordinates, if the world has one.
find_cell(c, x, y, t) ==
    IF x >= -1 /\ x <= c.width /\ y >= -1 /\ y <= c.height
    THEN <<x, y, t>> ELSE NoCell

\* The index of a cell in World::cells (the index find_cell computes).
CellIndex(c, cell) ==
    IF ColumnFirst(c)
    THEN ((cell[1] + 1) * (c.height + 2) + cell[2] + 1) * c.period + cell[3]
    ELSE ((cell[2] + 1) * (c.width + 2) + cell[1] + 1) * c.period + cell[3]

NumCells(c) == (c.width + 2) * (c.height + 2) * c.period

\* The cell World::new pushes at position i of World::cells.
CellAt(c, i) ==
    LET h == IF ColumnFirst(c) THEN c.height ELSE c.width
        t == i % c.period
        q == i \div c.period
        y == (q % (h + 2)) - 1
        x == (q \div (h + 2)) - 1
    IN  IF ColumnFirst(c) THEN <<x, y, t>> ELSE <<y, x, t>>

\* 0 <= x < width && 0 <= y < height
InRange(c, cell) ==
    0 <= cell[1] /\ cell[1] < c.width /\ 0 <= cell[2] /\ cell[2] < c.height

\* cell.is_gen0
is_gen0(cell) == cell[3] = 0

\* cell.is_front: the first column (row) of the search order.
is_front(c, cell) == IF ColumnFirst(c) THEN cell[1] = 0 ELSE cell[2] = 0

\* The background state World::new gives a cell.
Background(c, cell) ==
    IF has_b0(c.rule) /\ cell[3] % 2 = 1 THEN ALIVE ELSE DEAD

\* World::init_nbhd: the offsets of the eight neighbours, nbhd[0] first.
NbhdOffsets ==
    << <<-1, -1>>, <<-1, 0>>, <<-1, 1>>, <<0, -1>>,
       <<0, 1>>, <<1, -1>>, <<1, 0>>, <<1, 1>> >>

\* cell.nbhd with no link to a cell outside the search range.
Nbhd_within_range(c, cell, i) ==
    IF InRange(c, <<cell[1] + NbhdOffsets[i + 1][1], cell[2] + NbhdOffsets[i + 1][2], cell[3]>>)
    THEN <<cell[1] + NbhdOffsets[i + 1][1], cell[2] + NbhdOffsets[i + 1][2], cell[3]>>
    ELSE NoCell

\* cell.nbhd[i], i in 0..7 (NoCell outside the allocation).
Nbhd(c, cell, i) ==
    find_cell(c, cell[1] + NbhdOffsets[i + 1][1], cell[2] + NbhdOffsets[i + 1][2], cell[3])

\* World::init_pred_succ: cell.pred.
Pred(c, cell) ==
    LET x == cell[1]
        y == cell[2]
        t == cell[3]
        tr == c.transform
        new == CASE tr = "Id" -> <<x, y>>
                 [] tr = "Rotate90" -> <<c.height - 1 - y, x>>
                 [] tr = "Rotate180" -> <<c.width - 1 - x, c.height - 1 - y>>
                 [] tr = "Rotate270" -> <<y, c.width - 1 - x>>
                 [] tr = "FlipRow" -> <<x, c.height - 1 - y>>
                 [] tr = "FlipCol" -> <<c.width - 1 - x, y>>
                 [] tr = "FlipDiag" -> <<y, x>>
                 [] tr = "FlipAntidiag" -> <<c.height - 1 - y, c.width - 1 - x>>
    IN  IF t # 0 THEN <<x, y, t - 1>>
        ELSE find_cell(c, new[1] - c.dx, new[2] - c.dy, c.period - 1)

\* cell.succ with no link out of the last generation.
Succ_none_from_last(c, cell) ==
    IF cell[3] # c.period - 1 THEN <<cell[1], cell[2], cell[3] + 1>> ELSE NoCell

\* World::init_pred_succ: cell.succ.
Succ(c, cell) ==
    LET x == cell[1] + c.dx
        y == cell[2] + c.dy
        t == cell[3]
        tr == c.transform
        new == CASE tr = "Id" -> <<x, y>>
                 [] tr = "Rotate90" -> <<y, c.width - 1 - x>>
                 [] tr = "Rotate180" -> <<c.width - 1 - x, c.height - 1 - y>>
                 [] tr = "Rotate270" -> <<c.height - 1 - y, x>>
                 [] tr = "FlipRow" -> <<x, c.height - 1 - y>>
                 [] tr = "FlipCol" -> <<c.width - 1 - x, y>>
                 [] tr = "FlipDiag" -> <<y, x>>
                 [] tr = "FlipAntidiag" -> <<c.height - 1 - y, c.width - 1 - x>>
    IN  IF t # c.period - 1 THEN <<cell[1], cell[2], t + 1>>
        ELSE find_cell(c, new[1], new[2], 0)

\* Symmetric coordinates with the two axes of D2Row and D2Col exchanged.
SymCoords_axes_exchanged(c, cell) ==
    LET x == cell[1]
        y == cell[2]
        t == cell[3]
        w == c.width
        h == c.height
        sy == c.symmetry
    IN  CASE sy = "C1" -> << >>
          [] sy = "C2" -> << <<w - 1 - x, h - 1 - y, t>> >>
          [] sy = "C4" -> << <<y, w - 1 - x, t>>, <<w - 1 - x, h - 1 - y, t>>,
                             <<h - 1 - y, x, t>> >>
          [] sy = "D2Row" -> << <<w - 1 - x, y, t>> >>
          [] sy = "D2Col" -> << <<x, h - 1 - y, t>> >>
          [] sy = "D2Diag" -> << <<y, x, t>> >>
          [] sy = "D2Antidiag" -> << <<h - 1 - y, w - 1 - x, t>> >>
          [] sy = "D4Ortho" -> << <<w - 1 - x, y, t>>, <<x, h - 1 - y, t>>,
                                  <<w - 1 - x, h - 1 - y, t>> >>
          [] sy = "D4Diag" -> << <<y, x, t>>, <<h - 1 - y, w - 1 - x, t>>,
                                 <<w - 1 - x, h - 1 - y, t>> >>
          [] sy = "D8" -> << <<y, w - 1 - x, t>>, <<h - 1 - y, x, t>>,
                             <<w - 1 - x, y, t>>, <<x, h - 1 - y, t>>,
                             <<y, x, t>>, <<h - 1 - y, w - 1 - x, t>>,
                             <<w - 1 - x, h - 1 - y, t>> >>

\* World::init_sym: the coordinates symmetric to a cell, in the order of the code.
SymCoords(c, cell) ==
    LET x == cell[1]
        y == cell[2]
        t == cell[3]
        w == c.width
        h == c.height
        sy == c.symmetry
    IN  CASE sy = "C1" -> << >>
          [] sy = "C2" -> << <<w - 1 - x, h - 1 - y, t>> >>
          [] sy = "C4" -> << <<y, w - 1 - x, t>>, <<w - 1 - x, h - 1 - y, t>>,
                             <<h - 1 - y, x, t>> >>
          [] sy = "D2Row" -> << <<x, h - 1 - y, t>> >>
          [] sy = "D2Col" -> << <<w - 1 - x, y, t>> >>
          [] sy = "D2Diag" -> << <<y, x, t>> >>
          [] sy = "D2Antidiag" -> << <<h - 1 - y, w - 1 - x, t>> >>
          [] sy = "D4Ortho" -> << <<w - 1 - x, y, t>>, <<x, h - 1 - y, t>>,
                                  <<w - 1 - x, h - 1 - y, t>> >>
          [] sy = "D4Diag" -> << <<y, x, t>>, <<h - 1 - y, w - 1 - x, t>>,
                                 <<w - 1 - x, h - 1 - y, t>> >>
          [] sy = "D8" -> << <<y, w - 1 - x, t>>, <<h - 1 - y, x, t>>,
                             <<w - 1 - x, y, t>>, <<x, h - 1 - y, t>>,
                             <<y, x, t>>, <<h - 1 - y, w - 1 - x, t>>,
                             <<w - 1 - x, h - 1 - y, t>> >>

\* cell.sym: the symmetric cells that lie in the search range.
Sym(c, cell) == SelectSeq(SymCoords(c, cell), LAMBDA co : InRange(c, co))

\* cell.free that a missing predecessor does not clear.
Free_without_pred(c, cell) ==
    /\ InRange(c, cell)
    /\ \A k \in 1..Len(SymCoords(c, cell)) : InRange(c, SymCoords(c, cell)[k])

\* cell.free after init_pred_succ and init_sym: a cell of the search range
\* whose predecessor exists and whose symmetric cells all lie in the range.
Free(c, cell) ==
    /\ InRange(c, cell)
    /\ ~(cell[3] = 0 /\ Pred(c, cell) = NoCell)
    /\ \A k \in 1..Len(SymCoords(c, cell)) : InRange(c, SymCoords(c, cell)[k])

----------------------------------------------------------------------------
(* Neighbourhood descriptors (rules/ntlife/mod.rs): a 20-bit integer; bit  *)
(* 4+i says that nbhd[i] is alive, bit 12+i that it is dead, bits 2..3     *)
(* hold the state of the successor and bits 0..1 the state of the cell.    *)

\* Rule::new_desc
new_desc(st, succ_state) ==
    LET nbhd_state == IF st = ALIVE THEN 255 ELSE 65280
        succ_bits == IF succ_state = ALIVE THEN 1 ELSE 2
        self_bits == IF st = ALIVE THEN 1 ELSE 2
    IN  Shl(nbhd_state, 4) + Shl(succ_bits, 2) + self_bits

\* LifeCell::new: the descriptor of a fresh cell.
NewCellDesc(c, cell) ==
    LET background == Background(c, cell)
        succ_state == IF has_b0(c.rule) THEN Not(background) ELSE background
    IN  new_desc(background, succ_state)

\* update_desc: nbhd_change_num of (state, old_state).
NbhdChangeNum(st, old) ==
    IF st = ALIVE /\ old = ALIVE THEN 0
    ELSE IF (st # UNKNOWN /\ old = ALIVE) \/ (st = ALIVE /\ old # UNKNOWN) THEN 257
    ELSE IF (st = ALIVE /\ old = UNKNOWN) \/ (st = UNKNOWN /\ old = ALIVE) THEN 1
    ELSE IF (st # UNKNOWN /\ old = UNKNOWN) \/ (st = UNKNOWN /\ old # UNKNOWN) THEN 256
    ELSE 0

\* update_desc: change_num of (state, old_state).
ChangeNum(st, old) ==
    IF st = ALIVE /\ old = ALIVE THEN 0
    ELSE IF (st # UNKNOWN /\ old = ALIVE) \/ (st = ALIVE /\ old # UNKNOWN) THEN 3
    ELSE IF (st = ALIVE /\ old = UNKNOWN) \/ (st = UNKNOWN /\ old = ALIVE) THEN 1
    ELSE IF (st # UNKNOWN /\ old = UNKNOWN) \/ (st = UNKNOWN /\ old # UNKNOWN) THEN 2
    ELSE 0

RECURSIVE UpdateNbhd(_, _, _, _, _)
\* update_desc, the loop over cell.nbhd.iter().rev().enumerate() from i on:
\* the i-th neighbour from the end gets num << i << 4.  d is a record of
\* the descriptors and of whether an unwrap() has panicked.
UpdateNbhd(c, d, cell, num, i) ==
    IF i > 7 THEN d
    ELSE LET neigh == Nbhd(c, cell, 7 - i)
         IN  IF neigh = NoCell
             THEN [d EXCEPT !.panic = TRUE]
             ELSE UpdateNbhd(c,
                     [d EXCEPT !.desc[neigh] = Xor(@, Shl(Shl(num, i), 4))],
                     cell, num, i + 1)

\* The change XORed into the self slot of the predecessor.
UpdatePred_self_slot(c, d, cell, change_num) ==
    IF d.panic \/ Pred(c, cell) = NoCell THEN d
    ELSE [d EXCEPT !.desc[Pred(c, cell)] = Xor(@, change_num)]

\* update_desc: the successor slot of the predecessor, if there is one.
UpdatePred(c, d, cell, change_num) ==
    IF d.panic \/ Pred(c, cell) = NoCell THEN d
    ELSE [d EXCEPT !.desc[Pred(c, cell)] = Xor(@, Shl(change_num, 2))]

\* update_desc: the self slot of the cell.
UpdateSelf(d, cell, change_num) ==
    IF d.panic THEN d ELSE [d EXCEPT !.desc[cell] = Xor(@, change_num)]

\* Rule::update_desc of NtLife
update_desc(c, d, cell, old_state, st) ==
    UpdateSelf(
        UpdatePred(c, UpdateNbhd(c, d, cell, NbhdChangeNum(st, old_state), 0),
                   cell, ChangeNum(st, old_state)),
        cell, ChangeNum(st, old_state))

----------------------------------------------------------------------------
(* The implication table (rules/ntlife/mod.rs).  A value of ImplFlags is   *)
(* the set of its one-bit flags.  An entry of impl_table is given by the   *)
(* fields of its index: dead and alive are the two 8-bit halves of the     *)
(* neighbour slots, succ_state and st the two low slots.                   *)

CONFLICT == 1
SUCC_ALIVE == 4
SUCC_DEAD == 8
SELF_ALIVE == 16
SELF_DEAD == 32
\* ImplFlags::from_bits(n.pow(2) << 6) for n = 1 << i: neighbour i must be alive.
NbhdAlive(i) == Shl(1, 2 * i + 6)
\* ImplFlags::from_bits(n.pow(2) << 7) for n = 1 << i: neighbour i must be dead.
NbhdDead(i) == Shl(1, 2 * i + 7)

BitsOf(m) == {i \in 0..7 : Bit(m, i) = 1}

RECURSIVE init_trans(_, _, _, _)
\* NtLife::init_trans: the entry at (dead << 12 | alive << 4 | st) once
\* init_trans has run, for dead & alive = 0 and st in 0..2.  With no
\* unknown neighbour it is read off b and s; otherwise n is the highest
\* unknown bit, desc0 and desc1 are the entries with that neighbour dead
\* and alive, and the entry is theirs when they agree.
init_trans(r, dead, alive, st) ==
    LET unknowns == 255 - dead - alive
    IN  IF unknowns = 0
        THEN IF st = DEAD
             THEN (IF alive \in RuleB(r) THEN {SUCC_ALIVE} ELSE {SUCC_DEAD})
             ELSE IF st = ALIVE
             THEN (IF alive \in RuleS(r) THEN {SUCC_ALIVE} ELSE {SUCC_DEAD})
             ELSE IF alive \in RuleB(r) /\ alive \in RuleS(r) THEN {SUCC_ALIVE}
             ELSE IF alive \notin RuleB(r) /\ alive \notin RuleS(r) THEN {SUCC_DEAD}
             ELSE {}
        ELSE LET n == HighBit(unknowns)
                 trans0 == init_trans(r, dead + n, alive, st)
             IN  IF trans0 = init_trans(r, dead, alive + n, st) THEN trans0 ELSE {}

\* The entry with every unknown neighbour taken as dead.
TransEntry_unknown_as_dead(r, dead, alive, st) ==
    IF And(dead, alive) = 0 /\ st \in 0..2 THEN init_trans(r, 255 - alive, alive, st) ELSE {}

\* The entry at (dead << 12 | alive << 4 | st) after init_trans; an index
\* that is no descriptor (a neighbour both dead and alive, st = 3) is
\* never written and stays empty.
TransEntry(r, dead, alive, st) ==
    IF And(dead, alive) = 0 /\ st \in 0..2 THEN init_trans(r, dead, alive, st) ELSE {}

\* The final entry at an index whose successor slot is known (1 or 2),
\* as init_conflict, init_impl and init_impl_nbhd leave it.  `flag` of
\* the code is {opp, CONFLICT}; no entry with an unknown successor holds
\* CONFLICT, so intersects(flag) is membership of opp.
\*   init_conflict sets the entry to CONFLICT when the entry with the
\*     successor unknown holds opp (Hit).
\*   init_impl (st = 0) adds SELF_DEAD or SELF_ALIVE, or sets CONFLICT.
\*   init_impl_nbhd reaches the index once for every `unknowns` that is
\*     the unknown bits plus any subset of the alive bits, and every n
\*     of it: for an unknown n it adds a neighbour flag or sets CONFLICT
\*     (NbhdFlag); for an alive n, desc0 is no descriptor and desc1 is
\*     the index itself, and it adds NbhdDead when Hit holds.
\*   The entry is set to CONFLICT last in the last `unknowns` (all
\*   unknown and alive bits) at the highest such n; what is added
\*   after that stays.

\* The flag that contradicts a known successor state.
Opp(succ_state) == IF succ_state = DEAD THEN SUCC_ALIVE ELSE SUCC_DEAD

\* self.impl_table[desc | state].intersects(flag), successor unknown.
Hit(r, dead, alive, st, opp) == opp \in TransEntry(r, dead, alive, st)

\* NtLife::init_conflict at one index.
init_conflict(hit) == IF hit THEN {CONFLICT} ELSE {}

\* NtLife::init_impl at one index: e is the entry init_conflict left.
init_impl(e, st, possibly_dead, possibly_alive) ==
    IF st # 0 THEN e
    ELSE IF possibly_dead /\ ~possibly_alive THEN e \cup {SELF_DEAD}
    ELSE IF ~possibly_dead /\ possibly_alive THEN e \cup {SELF_ALIVE}
    ELSE IF ~possibly_dead /\ ~possibly_alive THEN {CONFLICT}
    ELSE e

\* The two flags of a neighbour exchanged.
NbhdFlag_exchanged(possibly_dead, possibly_alive, i) ==
    IF possibly_dead /\ ~possibly_alive THEN {NbhdAlive(i)}
    ELSE IF ~possibly_dead /\ possibly_alive THEN {NbhdDead(i)}
    ELSE {}

\* NtLife::init_impl_nbhd: what one unknown neighbour i adds.
NbhdFlag(possibly_dead, possibly_alive, i) ==
    IF possibly_dead /\ ~possibly_alive THEN {NbhdDead(i)}
    ELSE IF ~possibly_dead /\ possibly_alive THEN {NbhdAlive(i)}
    ELSE {}

\* NtLife::init_impl_nbhd: the unknown neighbours that set the entry to CONFLICT.
NbhdResets(r, dead, alive, st, opp) ==
    {i \in BitsOf(255 - dead - alive) :
        /\ Hit(r, dead + Pow2(i), alive, st, opp)
        /\ Hit(r, dead, alive + Pow2(i), st, opp)}

\* NtLife::init_impl_nbhd: the flags added for the neighbours above `from`.
NbhdAdded(r, dead, alive, st, opp, hit, from) ==
    UNION ({NbhdFlag(~Hit(r, dead + Pow2(i), alive, st, opp),
                     ~Hit(r, dead, alive + Pow2(i), st, opp), i) :
                i \in {j \in BitsOf(255 - dead - alive) : j > from}}
           \cup {IF hit THEN {NbhdDead(i)} ELSE {} :
                i \in {j \in BitsOf(alive) : j > from}})

\* The largest member of a non-empty set of numbers.
Max(S) == CHOOSE i \in S : \A j \in S : j <= i

\* The entry after init_impl_nbhd: e is the entry init_impl left.
init_impl_nbhd(r, dead, alive, st, opp, hit, e, resets) ==
    IF resets = {}
    THEN e \cup NbhdAdded(r, dead, alive, st, opp, hit, -1)
    ELSE {CONFLICT} \cup NbhdAdded(r, dead, alive, st, opp, hit, Max(resets))

\* The entry at (dead << 12 | alive << 4 | succ_state << 2 | st).
KnownSuccEntry(r, dead, alive, succ_state, st) ==
    init_impl_nbhd(r, dead, alive, st, Opp(succ_state),
        Hit(r, dead, alive, st, Opp(succ_state)),
        init_impl(init_conflict(Hit(r, dead, alive, st, Opp(succ_state))), st,
                  ~Hit(r, dead, alive, DEAD, Opp(succ_state)),
                  ~Hit(r, dead, alive, ALIVE, Opp(succ_state))),
        NbhdResets(r, dead, alive, st, Opp(succ_state)))

\* The entry at the index with these four fields.
TableEntry(r, dead, alive, succ_state, st) ==
    IF succ_state = 0 THEN TransEntry(r, dead, alive, st)
    ELSE IF succ_state = 3 \/ st = 3 \/ And(dead, alive) # 0 THEN {}
    ELSE KnownSuccEntry(r, dead, alive, succ_state, st)

\* world.rule.impl_table[desc]
impl_table(r, d) ==
    TableEntry(r, (d \div 4096) % 256, (d \div 16) % 256, (d \div 4) % 4, d % 4)

----------------------------------------------------------------------------
(* The world: a record w of the cells' states and descriptors, the two     *)
(* counters, the trail, and whether an unwrap() has panicked.  The         *)
(* counters are u32; a value below 0 stands for that value + 2^32, which   *)
(* is what a release build holds after a subtraction below zero.           *)

\* A generation-0 counter that goes down for a cell set dead, the way the
\* front counter does.
Gen0Count_dead_decrements(count, cell, old_state, st) ==
    IF ~is_gen0(cell) THEN count
    ELSE IF st = ALIVE THEN count + 1
    ELSE IF st = DEAD THEN count - 1
    ELSE count

\* World::set_cell: the gen0_cell_count it leaves.
Gen0Count(count, cell, old_state, st) ==
    IF ~is_gen0(cell) THEN count
    ELSE IF st = ALIVE THEN count + 1
    ELSE IF old_state = ALIVE THEN count - 1
    ELSE count

\* A front counter that forgets the front cells that stop being dead.
FrontCount_no_increment(c, count, cell, old_state, st) ==
    IF ~is_front(c, cell) THEN count
    ELSE IF st = DEAD THEN count - 1
    ELSE count

\* World::set_cell: the front_cell_count it leaves.
FrontCount(c, count, cell, old_state, st) ==
    IF ~is_front(c, cell) THEN count
    ELSE IF st = DEAD THEN count - 1
    ELSE IF old_state = DEAD THEN count + 1
    ELSE count

\* World::set_cell: a counter that holds 0 is decremented.
Underflow(c, w, cell, st) ==
    \/ w.gen0_cell_count = 0 /\ Gen0Count(0, cell, w.state[cell], st) < 0
    \/ w.front_cell_count = 0 /\ FrontCount(c, 0, cell, w.state[cell], st) < 0

\* World::set_cell: the world with the new state, descriptors d and counters.
Replace(c, w, cell, st, d) ==
    [w EXCEPT !.state[cell] = st, !.desc = d.desc,
              !.panic = d.panic \/ (c.overflow_checks /\ Underflow(c, w, cell, st)),
              !.gen0_cell_count = Gen0Count(@, cell, w.state[cell], st),
              !.front_cell_count = FrontCount(c, @, cell, w.state[cell], st)]

\* World::set_cell (world.rs): replaces the state of a cell (UNKNOWN for
\* None), updates the descriptors and the two counters.
World_set_cell(c, w, cell, st) ==
    IF w.state[cell] = st THEN w
    ELSE Replace(c, w, cell, st,
            update_desc(c, [desc |-> w.desc, panic |-> w.panic], cell, w.state[cell], st))

\* The cells init_state visits, in its order: x, then y, then t.
InitStateOrder(c) ==
    [k \in 1..(c.width * c.height * c.period) |->
        << (k - 1) \div (c.height * c.period),
           ((k - 1) \div c.period) % c.height,
           (k - 1) % c.period >>]

RECURSIVE init_state(_, _, _, _)
\* World::init_state from the k-th cell of `order` on: a free cell becomes unknown.
init_state(c, w, order, k) ==
    IF k > Len(order) THEN w
    ELSE init_state(c,
            IF Free(c, order[k]) THEN World_set_cell(c, w, order[k], UNKNOWN) ELSE w,
            order, k + 1)

\* World::new: every cell in its background state with a fresh descriptor,
\* both counters 0, then init_state.
NewWorld(c) ==
    init_state(c,
        [state |-> [cell \in Coords(c) |-> Background(c, cell)],
         desc |-> [cell \in Coords(c) |-> NewCellDesc(c, cell)],
         gen0_cell_count |-> 0,
         front_cell_count |-> 0,
         trail |-> << >>,
         panic |-> FALSE],
        InitStateOrder(c), 1)

\* World::init_search_order: the free cells in the order of World::cells.
\* (Right after init_state the unknown cells are the free ones.)
search_list(c) ==
    SelectSeq([i \in 1..NumCells(c) |-> CellAt(c, i - 1)], LAMBDA cell : Free(c, cell))

\* The smallest member of a non-empty set of numbers.
Min(S) == CHOOSE i \in S : \A j \in S : i <= j

\* .iter().find(|cell| cell.state.get().is_none())
FirstUnknown(list, st) ==
    IF \A k \in 1..Len(list) : st[list[k]] # UNKNOWN THEN NoCell
    ELSE list[Min({k \in 1..Len(list) : st[list[k]] = UNKNOWN})]

\* World::get_unknown: the first unknown cell of search_list.
get_unknown(c, st) == FirstUnknown(search_list(c), st)

\* nontrivial without the test that t divides the period.
nontrivial_every_t(c, w) ==
    /\ w.gen0_cell_count # 0
    /\ \A t \in 1..(c.period - 1) :
          \E cell \in Coords(c) :
             cell[3] = 0 /\ w.state[cell] # w.state[<<cell[1], cell[2], t>>]

\* World::nontrivial
nontrivial(c, w) ==
    /\ w.gen0_cell_count # 0
    /\ \A t \in 1..(c.period - 1) :
          \/ c.period % t # 0
          \/ \E cell \in Coords(c) :
                cell[3] = 0 /\ w.state[cell] # w.state[<<cell[1], cell[2], t>>]

----------------------------------------------------------------------------
(* The search (specification, sections 4.3 and 4.4).  A trail entry holds  *)
(* the cell, the reason ("Assume", "Deduce" or "Sym") and the decision     *)
(* level; the state it set is the state of the cell.                       *)

\* The current decision level: the Assume entries on the trail.
Level(tr) == Cardinality({k \in 1..Len(tr) : tr[k].reason = "Assume"})

\* count > max on u32 (see the note on the counters above).
U32Gt(count, max) == count < 0 \/ count > max

\* max_cell_count is an Option<u32>: None is 0 (Args::parse turns -m 0
\* into None), Some(n) is n, and Some(0), which only reduce_max can set,
\* is ZeroBound.
ZeroBound == -1

\* The bound a max_cell_count other than None holds.
MaxBound(c) == IF c.max_cell_count = ZeroBound THEN 0 ELSE c.max_cell_count

\* The bound compared with one cell too many.
ExceedsMax_one_more(c, w) ==
    c.max_cell_count # 0 /\ U32Gt(w.gen0_cell_count, MaxBound(c) + 1)

\* The max_cell_count bound of a configuration (0: none) is exceeded.
ExceedsMax(c, w) == c.max_cell_count # 0 /\ U32Gt(w.gen0_cell_count, MaxBound(c))

\* The non-empty-front bound of a configuration is violated.
FrontEmpty(c, w) == c.non_empty_front /\ w.front_cell_count = 0

\* A trail entry whose level is the number of entries below it.
Push_level_by_length(w, cell, reason) ==
    [w EXCEPT !.trail = Append(@, [cell |-> cell, reason |-> reason,
                 level |-> IF reason = "Assume" THEN Len(w.trail) ELSE Level(w.trail)])]

\* set_cell: the trail entry pushed for a cell.
Push(w, cell, reason) ==
    [w EXCEPT !.trail = Append(@, [cell |-> cell, reason |-> reason,
                 level |-> Level(w.trail) + (IF reason = "Assume" THEN 1 ELSE 0)])]

\* set_cell: the two bounds, enforced once the partners are set.
Enforce(c, r) ==
    IF ~r.ok THEN r
    ELSE [w |-> r.w, ok |-> ~ExceedsMax(c, r.w) /\ ~FrontEmpty(c, r.w)]

RECURSIVE set_cell(_, _, _, _, _)
RECURSIVE set_sym(_, _, _, _, _)
RECURSIVE set_sym_rest(_, _, _, _, _)

\* set_cell(target, state, reason) of section 4.3.  A known target is left
\* alone: true when it holds `st`.  An unknown target gets the state
\* (World::set_cell: descriptors and counters), a trail entry is pushed,
\* every symmetry partner is set, and the two bounds are enforced.
set_cell(c, w, cell, st, reason) ==
    IF w.state[cell] # UNKNOWN
    THEN [w |-> w, ok |-> w.state[cell] = st]
    ELSE Enforce(c, set_sym(c, Push(World_set_cell(c, w, cell, st), cell, reason),
                            cell, st, 1))

\* The loop of set_cell over the symmetry partners of `cell`, from the
\* k-th on; the first failure ends it.
set_sym(c, w, cell, st, k) ==
    IF k > Len(Sym(c, cell)) THEN [w |-> w, ok |-> TRUE]
    ELSE set_sym_rest(c, set_cell(c, w, Sym(c, cell)[k], st, "Sym"), cell, st, k)

\* The loop after the k-th partner was set with result r.
set_sym_rest(c, r, cell, st, k) ==
    IF ~r.ok THEN r ELSE set_sym(c, r.w, cell, st, k + 1)

RECURSIVE ConsistifyNbhd(_, _, _, _, _)
RECURSIVE ConsistifyNbhdRest(_, _, _, _, _)

\* NtLife::consistify, the loop over cell.nbhd.iter().enumerate() from i on.
ConsistifyNbhd(c, w, cell, flags, i) ==
    IF i > 7 THEN [w |-> w, ok |-> TRUE]
    ELSE IF flags \cap {NbhdAlive(i), NbhdDead(i)} = {} \/ Nbhd(c, cell, i) = NoCell
    THEN ConsistifyNbhd(c, w, cell, flags, i + 1)
    ELSE ConsistifyNbhdRest(c,
            set_cell(c, w, Nbhd(c, cell, i),
                     IF NbhdDead(i) \in flags THEN DEAD ELSE ALIVE, "Deduce"),
            cell, flags, i)

\* The loop after neighbour i was set with result r.
ConsistifyNbhdRest(c, r, cell, flags, i) ==
    IF ~r.ok THEN r ELSE ConsistifyNbhd(c, r.w, cell, flags, i + 1)

\* NtLife::consistify, the successor: cell.succ.unwrap() and set_cell.
ConsistifySucc(c, w, cell, st) ==
    IF Succ(c, cell) = NoCell
    THEN [w |-> [w EXCEPT !.panic = TRUE], ok |-> FALSE]
    ELSE set_cell(c, w, Succ(c, cell), st, "Deduce")

\* The cell itself set to the state opposite to its flag.
ConsistifySelf_state_exchanged(c, w, cell, flags) ==
    IF flags \cap {SELF_DEAD, SELF_ALIVE} = {} THEN [w |-> w, ok |-> TRUE]
    ELSE set_cell(c, w, cell, IF SELF_DEAD \in flags THEN ALIVE ELSE DEAD, "Deduce")

\* NtLife::consistify, the cell itself.
ConsistifySelf(c, w, cell, flags) ==
    IF flags \cap {SELF_DEAD, SELF_ALIVE} = {} THEN [w |-> w, ok |-> TRUE]
    ELSE set_cell(c, w, cell, IF SELF_DEAD \in flags THEN DEAD ELSE ALIVE, "Deduce")

\* NtLife::consistify with the flags of the cell's descriptor.
ConsistifyFlags(c, w, cell, flags) ==
    IF CONFLICT \in flags THEN [w |-> w, ok |-> FALSE]
    ELSE IF flags \cap {SUCC_DEAD, SUCC_ALIVE} # {}
    THEN ConsistifySucc(c, w, cell, IF SUCC_DEAD \in flags THEN DEAD ELSE ALIVE)
    ELSE ConsistifyNbhdRest(c, ConsistifySelf(c, w, cell, flags), cell, flags, -1)

\* NtLife::consistify
consistify(c, w, cell) ==
    ConsistifyFlags(c, w, cell, impl_table(c.rule, w.desc[cell]))

\* Backtrack: the world with the top entry of the trail popped and reverted.
Pop(c, w) ==
    [World_set_cell(c, w, w.trail[Len(w.trail)].cell, UNKNOWN)
        EXCEPT !.trail = SubSeq(w.trail, 1, Len(w.trail) - 1)]

RECURSIVE backtrack(_, _, _)
RECURSIVE Flip(_, _, _, _)

\* Backtrack of section 4.4: entries are popped and reverted
\* (World::set_cell to None) down to the most recent Assume entry; that
\* cell gets the other state with reason Deduce, check_index goes just
\* past its entry and the conflict counter is incremented.  A set_cell
\* that fails triggers the next backtrack (section 7).  With no Assume
\* entry left the search is exhausted (ok is FALSE).  n counts the
\* increments of the conflict counter.
backtrack(c, w, n) ==
    IF Len(w.trail) = 0 THEN [w |-> w, ok |-> FALSE, conflicts |-> n, check_index |-> 0]
    ELSE IF w.trail[Len(w.trail)].reason # "Assume" THEN backtrack(c, Pop(c, w), n)
    ELSE Flip(c, set_cell(c, Pop(c, w), w.trail[Len(w.trail)].cell,
                          Not(w.state[w.trail[Len(w.trail)].cell]), "Deduce"),
              Len(w.trail), n + 1)

\* Backtrack after the flip that leaves check_index on the flipped entry.
Flip_on_entry(c, r, at, n) ==
    IF r.ok THEN [w |-> r.w, ok |-> TRUE, conflicts |-> n, check_index |-> at - 1]
    ELSE backtrack(c, r.w, n)

\* Backtrack after the flip with result r: the flipped entry is entry
\* number `at` of the trail.
Flip(c, r, at, n) ==
    IF r.ok THEN [w |-> r.w, ok |-> TRUE, conflicts |-> n, check_index |-> at]
    ELSE backtrack(c, r.w, n)

----------------------------------------------------------------------------
(* The state machine. *)

Orders == {"Automatic", "Row", "Column"}
NewStates == {"ChooseDead", "ChooseAlive", "Random"}

\* The sizes, periods, translations and cell-count bounds of the model.
Sizes == 1..MaxSize
Periods == 1..MaxPeriod
Shifts == -MaxShift..MaxShift
Counts == 0..MaxCount

\* Configurations that vary the geometry of the world: the shape, the
\* period, the translation and the transformation.
GeometryConfigs ==
    [width : Sizes, height : Sizes, period : Periods, dx : Shifts, dy : Shifts,
     transform : Transforms, symmetry : {"C1"}, rule : {"B3/S23", "B03/S23"},
     order : {"Automatic"}, new_state : {"ChooseAlive"},
     max_cell_count : {0}, non_empty_front : {FALSE}, overflow_checks : BOOLEAN,
     reduce_max : {FALSE}]

\* Configurations that vary the symmetry, the choice policy and the two bounds.
SymmetryConfigs ==
    [width : Sizes, height : Sizes, period : Periods, dx : {0}, dy : {0},
     transform : {"Id"}, symmetry : Symmetries, rule : {"B3/S23", "B03/S23"},
     order : {"Automatic"}, new_state : NewStates,
     max_cell_count : Counts, non_empty_front : BOOLEAN, overflow_checks : BOOLEAN,
     reduce_max : {FALSE}]

\* Configurations with a symmetry and a translation that fixes cells of
\* generation 0 to their background (their predecessor is outside the world).
ShiftedConfigs ==
    [width : Sizes, height : Sizes, period : Periods, dx : {-MaxShift, MaxShift},
     dy : {0}, transform : {"Id"}, symmetry : Symmetries,
     rule : {"B3/S23", "B03/S23"},
     order : {"Automatic"}, new_state : {"ChooseDead", "ChooseAlive"},
     max_cell_count : {0}, non_empty_front : BOOLEAN, overflow_checks : BOOLEAN,
     reduce_max : {FALSE}]

\* Configurations that vary the rule, the search order and the choice policy.
OrderConfigs ==
    [width : Sizes, height : Sizes, period : Periods, dx : {0}, dy : {0},
     transform : {"Id"}, symmetry : {"C1"}, rule : RuleNames,
     order : Orders, new_state : NewStates,
     max_cell_count : {0}, non_empty_front : {FALSE}, overflow_checks : BOOLEAN,
     reduce_max : {FALSE}]

\* The configurations a world is built from: Args::parse has accepted them.
\* overflow_checks is the build profile: a debug build panics when a
\* counter is decremented below zero, a release build wraps.  Only the
\* world of a B0 rule decrements a counter that holds 0, so the two
\* builds of the other rules are one.
Configs ==
    {c \in GeometryConfigs \cup SymmetryConfigs \cup ShiftedConfigs \cup OrderConfigs :
        /\ c.overflow_checks => has_b0(c.rule)
        /\ c.width * c.height * c.period <= MaxCells
        /\ SquareCheck(c.width, c.height, c.transform, c.symmetry)}

\* The world the variables hold.
World ==
    [state |-> state, desc |-> desc, gen0_cell_count |-> gen0_cell_count,
     front_cell_count |-> front_cell_count, trail |-> trail, panic |-> FALSE]

\* The variables after a step that leaves world w; a panic ends the
\* program where it stood.
Put(w, ci, si, cf, st) ==
    IF w.panic
    THEN /\ status' = "Panicked"
         /\ UNCHANGED <<config, state, desc, gen0_cell_count, front_cell_count,
                        trail, check_index, search_index, conflicts,
                        input, output>>
    ELSE /\ state' = w.state
         /\ desc' = w.desc
         /\ gen0_cell_count' = w.gen0_cell_count
         /\ front_cell_count' = w.front_cell_count
         /\ trail' = w.trail
         /\ check_index' = ci
         /\ search_index' = si
         /\ conflicts' = cf
         /\ status' = st
         /\ UNCHANGED <<config, input, output>>

\* The variables after a backtrack b.
PutBacktrack(b, si) ==
    Put(b.w, b.check_index, si, conflicts + b.conflicts,
        IF b.ok THEN "Searching" ELSE "Exhausted")

\* The states the choice policy may give a newly assumed cell.
Choices(c) ==
    CASE c.new_state = "ChooseDead" -> {DEAD}
      [] c.new_state = "ChooseAlive" -> {ALIVE}
      [] c.new_state = "Random" -> {DEAD, ALIVE}

\* The position of a cell in the search list, counted from 0.
IndexOf(c, cell) ==
    LET list == search_list(c)
    IN  (CHOOSE k \in 1..Len(list) : list[k] = cell) - 1

\* The variables hold world w and the search has not begun.
Start(w) ==
    /\ state = w.state
    /\ desc = w.desc
    /\ gen0_cell_count = w.gen0_cell_count
    /\ front_cell_count = w.front_cell_count
    /\ trail = w.trail
    /\ check_index = 0
    /\ search_index = 0
    /\ conflicts = 0
    /\ status = "Searching"
    /\ input = NoValue
    /\ output = NoValue

Init ==
    /\ config \in Configs
    /\ \E w \in {NewWorld(config)} : Start(w)

\* proceed after a consistify with result r that found no conflict.
Proceeded(r) ==
    /\ r.ok
    /\ Put(r.w, check_index + 1, search_index, conflicts, "Searching")

\* proceed: the next cell of the trail is consistified without a conflict.
Proceed ==
    /\ status = "Searching"
    /\ check_index < Len(trail)
    /\ \E r \in {consistify(config, World, trail[check_index + 1].cell)} : Proceeded(r)

\* step after a consistify with result r that found a conflict.
Conflicted(r) ==
    /\ ~r.ok
    /\ \E b \in {backtrack(config, r.w, 0)} : PutBacktrack(b, search_index)

\* proceed returns Conflict, and step backtracks.
Conflict ==
    /\ status = "Searching"
    /\ check_index < Len(trail)
    /\ \E r \in {consistify(config, World, trail[check_index + 1].cell)} : Conflicted(r)

\* step after assume(u, st) with result r; si is index_of(u).
Assumed(r, si) ==
    IF r.ok
    THEN Put(r.w, check_index, si, conflicts, "Searching")
    ELSE \E b \in {backtrack(config, r.w, 0)} : PutBacktrack(b, si)

\* step assumes a state for the next unknown cell u.
AssumeCell(u) ==
    /\ u # NoCell
    /\ \E st \in Choices(config) :
          \E r \in {set_cell(config, World, u, st, "Assume")} :
             Assumed(r, IndexOf(config, u))

\* step with nothing left to propagate and an unknown cell.
Assume ==
    /\ status = "Searching"
    /\ check_index = Len(trail)
    /\ \E u \in {get_unknown(config, state)} : AssumeCell(u)

\* step finds every cell known and the pattern nontrivial.
Found ==
    /\ status = "Searching"
    /\ check_index = Len(trail)
    /\ get_unknown(config, state) = NoCell
    /\ nontrivial(config, World)
    /\ status' = "Found"
    /\ UNCHANGED <<config, state, desc, gen0_cell_count, front_cell_count,
                   trail, check_index, search_index, conflicts, input, output>>

\* step finds every cell known and the pattern trivial, and backtracks.
Trivial ==
    /\ status = "Searching"
    /\ check_index = Len(trail)
    /\ get_unknown(config, state) = NoCell
    /\ ~nontrivial(config, World)
    /\ \E b \in {backtrack(config, World, 0)} : PutBacktrack(b, search_index)

Next == Proceed \/ Conflict \/ Assume \/ Found \/ Trivial

Spec == Init /\ [][Next]_vars

----------------------------------------------------------------------------
(* What a pattern must satisfy: the rule, read off b and s. *)

\* The 8-bit neighbourhood of a cell in st: bit i is set when nbhd[i] is alive.
RECURSIVE AliveMask(_, _, _, _)
AliveMask(c, st, cell, i) ==
    IF i > 7 THEN 0
    ELSE (IF st[Nbhd(c, cell, i)] = ALIVE THEN Pow2(i) ELSE 0) + AliveMask(c, st, cell, i + 1)

\* The state the rule gives the successor of a known cell with known neighbours.
Transition(c, st, cell) ==
    IF AliveMask(c, st, cell, 0) \in (IF st[cell] = ALIVE THEN RuleS(c.rule) ELSE RuleB(c.rule))
    THEN ALIVE ELSE DEAD

\* The cell has eight neighbours, and it and they are known in st.
NbhdKnown(c, st, cell) ==
    /\ st[cell] # UNKNOWN
    /\ \A i \in 0..7 : Nbhd(c, cell, i) # NoCell /\ st[Nbhd(c, cell, i)] # UNKNOWN

\* The rule holds at a cell of st: its successor is what the rule gives.
RuleHoldsAt(c, st, cell) ==
    /\ Succ(c, cell) # NoCell
    /\ st[Succ(c, cell)] = Transition(c, st, cell)

\* The cells of a sequence.
Range(seq) == {seq[k] : k \in 1..Len(seq)}

----------------------------------------------------------------------------
(* C1 *)

\* C1 (the claim as stated): whenever step returns Found, no cell of the
\* search list is unknown, and at every cell that is known with its eight
\* neighbours the successor holds the state the rule gives.
C1_FoundSatisfiesRule ==
    status = "Found" =>
        /\ \A cell \in Range(search_list(config)) : state[cell] # UNKNOWN
        /\ \A cell \in Coords(config) :
              NbhdKnown(config, state, cell) => RuleHoldsAt(config, state, cell)

----------------------------------------------------------------------------
(* C2 *)

\* The free cells of a world.
FreeCells(c) == {cell \in Coords(c) : Free(c, cell)}

\* The world in which the free cells hold the states a gives them and
\* every other cell its background.
Pattern(c, a) ==
    [cell \in Coords(c) |-> IF Free(c, cell) THEN a[cell] ELSE Background(c, cell)]

\* The number of alive cells of generation 0.
Gen0Alive(c, st) == Cardinality({cell \in Coords(c) : is_gen0(cell) /\ st[cell] = ALIVE})

\* The pattern is not empty and has no period that properly divides the period.
Nontrivial(c, st) ==
    /\ Gen0Alive(c, st) > 0
    /\ \A t \in 1..(c.period - 1) :
          c.period % t = 0 =>
             \E cell \in Coords(c) :
                cell[3] = 0 /\ st[cell] # st[<<cell[1], cell[2], t>>]

\* What a reported pattern has to satisfy: the rule at every cell of the
\* search range, the symmetry, the nontrivial filter and the two bounds.
Solution(c, st) ==
    /\ \A cell \in Coords(c) : InRange(c, cell) => RuleHoldsAt(c, st, cell)
    /\ \A cell \in FreeCells(c) : \A p \in Range(Sym(c, cell)) : st[p] = st[cell]
    /\ Nontrivial(c, st)
    /\ c.max_cell_count # 0 => Gen0Alive(c, st) <= c.max_cell_count
    /\ c.non_empty_front => \E cell \in Coords(c) : is_front(c, cell) /\ st[cell] = ALIVE

\* C2 (the claim as stated): step returns Exhausted only when no
\* assignment of Alive and Dead to the free cells satisfies the rule at
\* every cell, the symmetry, the nontrivial filter and the enabled bounds.
C2_ExhaustedOnlyWithoutSolution ==
    status = "Exhausted" =>
        \A a \in [FreeCells(config) -> {ALIVE, DEAD}] :
            ~Solution(config, Pattern(config, a))

----------------------------------------------------------------------------
(* C4 *)

\* The descriptor d of a cell encodes the state of the cell, of its
\* successor and of each of its neighbours in st (a state is its own
\* 2-bit pattern: 0 unknown, 1 alive, 2 dead).
DescEncodes(c, st, d, cell) ==
    /\ d % 4 = st[cell]
    /\ Succ(c, cell) # NoCell => (d \div 4) % 4 = st[Succ(c, cell)]
    /\ \A i \in 0..7 :
          Nbhd(c, cell, i) # NoCell =>
             /\ Bit(d, 4 + i) = (IF st[Nbhd(c, cell, i)] = ALIVE THEN 1 ELSE 0)
             /\ Bit(d, 12 + i) = (IF st[Nbhd(c, cell, i)] = DEAD THEN 1 ELSE 0)

\* C4 (the claim as stated): in every state, for every rule and every
\* period, the descriptor of every cell encodes the current state of the
\* cell, of its successor and of its eight neighbours.
C4_DescriptorsEncodeStates ==
    \A cell \in Coords(config) : DescEncodes(config, state, desc[cell], cell)

----------------------------------------------------------------------------
(* C3 *)

\* C3 (the claim as stated, as a safety property): repeated calls to step
\* return Found or Exhausted in the end, so the search never stops in any
\* other way.  (Every action needs status = "Searching": a state with
\* another status is where the run ends.)
C3_StepTerminates == status # "Searching" => status \in {"Found", "Exhausted"}

----------------------------------------------------------------------------
(* C5 *)

RECURSIVE PopN(_, _, _)
\* The world with the top n entries of the trail popped and reverted.
PopN(c, w, n) == IF n = 0 THEN w ELSE PopN(c, Pop(c, w), n - 1)

\* Setting `cell` to s in world w and popping what that pushed gives w back.
PushPopRestores(c, w, cell, s, r) ==
    r.w.panic \/ PopN(c, r.w, Len(r.w.trail) - Len(w.trail)) = w

\* C5: in every state, setting an unknown cell to a state (which pushes a
\* trail entry for it and for each symmetry partner it sets) and then
\* popping these entries restores every state, every descriptor, the two
\* counters and the trail.
C5_PushPopRestores ==
    \A cell \in Coords(config) : \A s \in {ALIVE, DEAD} :
        state[cell] = UNKNOWN =>
            \A r \in {set_cell(config, World, cell, s, "Deduce")} :
                PushPopRestores(config, World, cell, s, r)

\* A state of C5: after a backtrack, a cell is unknown, setting it dead
\* sets a symmetry partner too and changes a counter, and popping restores.
C5_Witness ==
    /\ conflicts > 0
    /\ \E cell \in Coords(config) :
          /\ state[cell] = UNKNOWN
          /\ \E r \in {set_cell(config, World, cell, DEAD, "Deduce")} :
                /\ ~r.w.panic
                /\ Len(r.w.trail) >= Len(trail) + 2
                /\ r.w.front_cell_count # front_cell_count
                /\ PopN(config, r.w, Len(r.w.trail) - Len(trail)) = World

----------------------------------------------------------------------------
(* C6 *)

\* The reflections the symmetries are made of.
Reflect(c, name, cell) ==
    CASE name = "Row" -> <<cell[1], c.height - 1 - cell[2], cell[3]>>
      [] name = "Col" -> <<c.width - 1 - cell[1], cell[2], cell[3]>>
      [] name = "Diag" -> <<cell[2], cell[1], cell[3]>>

RECURSIVE ReflectAll(_, _, _)
\* The reflections of a sequence applied to a cell, the first one first.
ReflectAll(c, names, cell) ==
    IF names = << >> THEN cell
    ELSE ReflectAll(c, Tail(names), Reflect(c, Head(names), cell))

\* Generators of the group of a symmetry, each a product of reflections.
Generators(sy) ==
    CASE sy = "C1" -> {}
      [] sy = "C2" -> {<<"Row", "Col">>}
      [] sy = "C4" -> {<<"Row", "Diag">>}
      [] sy = "D2Row" -> {<<"Row">>}
      [] sy = "D2Col" -> {<<"Col">>}
      [] sy = "D2Diag" -> {<<"Diag">>}
      [] sy = "D2Antidiag" -> {<<"Row", "Col", "Diag">>}
      [] sy = "D4Ortho" -> {<<"Row">>, <<"Col">>}
      [] sy = "D4Diag" -> {<<"Diag">>, <<"Row", "Col", "Diag">>}
      [] sy = "D8" -> {<<"Row">>, <<"Diag">>}

RECURSIVE Closure(_, _)
\* The cells the group of the symmetry maps a set of cells to.
Closure(c, S) ==
    IF \A cell \in S : \A g \in Generators(c.symmetry) : ReflectAll(c, g, cell) \in S
    THEN S
    ELSE Closure(c, S \cup {ReflectAll(c, g, cell) : g \in Generators(c.symmetry), cell \in S})

\* The symmetry partners of a cell.
Orbit(c, cell) == Closure(c, {cell})

\* set_cell with result r has made `cell` and its partners known with state s.
PartnersSet(c, cell, s, r) ==
    r.ok => \A p \in Orbit(c, cell) : r.w.state[p] = s

\* C6: in every state two symmetry partners that are both known hold the
\* same state, and a set_cell that makes a cell known leaves each of its
\* partners known with that state, or reports a conflict.
C6_SymmetryPartnersAgree ==
    \A cell \in Coords(config) :
        InRange(config, cell) =>
            /\ \A p \in Orbit(config, cell) :
                  state[cell] # UNKNOWN /\ state[p] # UNKNOWN => state[p] = state[cell]
            /\ state[cell] = UNKNOWN =>
                  \A s \in {ALIVE, DEAD} :
                     \A r \in {set_cell(config, World, cell, s, "Deduce")} :
                        PartnersSet(config, cell, s, r)

\* A state of C6: set_cell has set an alive cell and, for the symmetry, a
\* partner of it, after an earlier branch was given up.
C6_Witness ==
    /\ conflicts > 0
    /\ \E k \in 1..Len(trail) :
          /\ trail[k].reason = "Sym"
          /\ state[trail[k].cell] = ALIVE
          /\ \E p \in Orbit(config, trail[k].cell) :
                p # trail[k].cell /\ state[p] = ALIVE

----------------------------------------------------------------------------
(* C7 *)

\* C7: check_index never passes the end of the trail, and the decision
\* levels of the trail entries never decrease from the bottom to the top.
C7_TrailMonotone ==
    /\ check_index <= Len(trail)
    /\ \A j, k \in 1..Len(trail) : j <= k => trail[j].level <= trail[k].level

\* A state of C7: a trail with entries of two decision levels, not all of
\* them checked, after a backtrack.
C7_Witness ==
    /\ conflicts > 0
    /\ check_index < Len(trail)
    /\ \E j, k \in 1..Len(trail) : trail[j].level < trail[k].level

----------------------------------------------------------------------------
(* C8 *)

\* The number of alive cells of generation 0.
Gen0AliveNum(c, st) ==
    Cardinality({cell \in Coords(c) : InRange(c, cell) /\ cell[3] = 0 /\ st[cell] = ALIVE})

\* set_cell with result r fails when it exceeds the bound.
MaxEnforced(c, r) == Gen0AliveNum(c, r.w.state) > c.max_cell_count => ~r.ok

----------------------------------------------------------------------------
(* C9 *)

\* The cells of the front row or column.
FrontCells(c) == {cell \in Coords(c) : InRange(c, cell) /\ is_front(c, cell)}

\* set_cell with result r fails when no front cell is unknown or alive.
FrontEnforced(c, r) ==
    (\A cell \in FrontCells(c) : r.w.state[cell] = DEAD) => ~r.ok

\* C9: with non_empty_front, a set_cell that leaves no front cell unknown
\* or alive returns false, and a pattern reported as Found has an alive
\* cell in the front row or column.
C9_NonEmptyFront ==
    config.non_empty_front =>
        /\ status = "Found" => \E cell \in FrontCells(config) : state[cell] = ALIVE
        /\ \A cell \in Coords(config) :
              InRange(config, cell) /\ state[cell] = UNKNOWN =>
                 \A s \in {ALIVE, DEAD} :
                    \A r \in {set_cell(config, World, cell, s, "Deduce")} :
                       FrontEnforced(config, r)

----------------------------------------------------------------------------
(* Saving and loading a world (save.rs). *)

\* The result of cells[index] for an index outside the vector: a panic.
OutOfBounds == <<"index out of bounds">>

\* World::find_cell as world_with_rule uses it, on a coordinate read from a
\* save: x and y are tested, the generation is not, and the cell is the one
\* at the computed index of World::cells.
Lookup(c, coord) ==
    IF find_cell(c, coord[1], coord[2], coord[3]) = NoCell THEN NoCell
    ELSE IF CellIndex(c, coord) < 0 \/ CellIndex(c, coord) >= NumCells(c) THEN OutOfBounds
    ELSE CellAt(c, CellIndex(c, coord))

\* SetCell::ser: a trail entry as (coord, state, reason).
SetCellSer(w, e) == [coord |-> e.cell, state |-> w.state[e.cell], reason |-> e.reason]

\* World::ser: the save of world w with these search fields.
ser(c, w, cf, ci, si) ==
    [config |-> c, conflicts |-> cf,
     set_stack |-> [k \in 1..Len(w.trail) |-> SetCellSer(w, w.trail[k])],
     check_index |-> ci, search_index |-> si]

\* What world_with_rule returns: Ok(world) with the search fields, or
\* Err(SetCellErr { coord }); `panic` when it returns nothing.
Loaded(w, save) ==
    [ok |-> TRUE, panic |-> w.panic, coord |-> NoCell, w |-> w,
     conflicts |-> save.conflicts, check_index |-> save.check_index,
     search_index |-> save.search_index]

SetCellErr(coord) == [ok |-> FALSE, panic |-> FALSE, coord |-> coord]

Panic == [ok |-> FALSE, panic |-> TRUE, coord |-> NoCell]

RECURSIVE Replay(_, _, _)
RECURSIVE ReplayCell(_, _, _, _)

\* world_with_rule: the loop over set_stack, from entry k on.
Replay(save, w, k) ==
    IF k > Len(save.set_stack) THEN Loaded(w, save)
    ELSE ReplayCell(save, w, k, Lookup(save.config, save.set_stack[k].coord))

\* The body of the loop for entry k, whose coordinate find_cell gave `cell`.
ReplayCell(save, w, k, cell) ==
    IF cell = NoCell THEN SetCellErr(save.set_stack[k].coord)
    ELSE IF cell = OutOfBounds THEN Panic
    ELSE IF w.state[cell] # UNKNOWN
    THEN IF w.state[cell] # save.set_stack[k].state
         THEN SetCellErr(save.set_stack[k].coord)
         ELSE Replay(save, w, k + 1)
    ELSE Replay(save,
                set_cell(save.config, w, cell, save.set_stack[k].state,
                         save.set_stack[k].reason).w,
                k + 1)

\* A loading that forgets the position in the trail.
world_with_rule_no_check_index(save) ==
    [Replay(save, NewWorld(save.config), 1) EXCEPT !.check_index = 0]

\* WorldSer::world_with_rule: a new world of the saved configuration, the
\* saved entries replayed, then the saved search fields.
world_with_rule(save) == Replay(save, NewWorld(save.config), 1)

----------------------------------------------------------------------------
(* C11 *)

\* The loaded world r is the world that was saved as `save`.
SameWorld(r, save, st) ==
    /\ r.ok
    /\ r.w.state = st
    /\ ser(save.config, r.w, r.conflicts, r.check_index, r.search_index) = save

\* C11: at every step boundary, saving the world and loading the save
\* gives a world with the same state of every cell, the same conflict
\* count, check_index and search_index and the same trail (cells, states
\* and reasons in order).
C11_SaveRestoreRoundTrip ==
    status # "Panicked" =>
        \A save \in {ser(config, World, conflicts, check_index, search_index)} :
            \A r \in {world_with_rule(save)} : SameWorld(r, save, state)

\* A state of C11: after a backtrack, a world whose trail holds an assumed
\* cell, a cell set by symmetry and an entry not yet examined is saved
\* and loaded.
C11_Witness ==
    /\ conflicts > 0
    /\ check_index < Len(trail)
    /\ \E j, k \in 1..Len(trail) : trail[j].reason = "Assume" /\ trail[k].reason = "Sym"
    /\ \A save \in {ser(config, World, conflicts, check_index, search_index)} :
          \A r \in {world_with_rule(save)} : SameWorld(r, save, state)

----------------------------------------------------------------------------
(* Loading a save file that need not come from World::ser. *)

\* The worlds that are loaded: two cells, with and without a symmetry, a
\* translation that fixes cells, and a rule with B0.
LoadConfigs ==
    {c \in Configs :
        /\ c.width * c.height * c.period = 2
        /\ c.dx \in {0, MaxShift} /\ c.dy = 0 /\ c.transform = "Id"
        /\ c.symmetry \in {"C1", "C2"}
        /\ c.rule \in {"B3/S23", "B03/S23"}
        /\ c.order = "Automatic" /\ c.new_state = "ChooseAlive"
        /\ c.max_cell_count = 0 /\ ~c.non_empty_front /\ ~c.overflow_checks}

\* The coordinates an entry of a save file may name: cells of the search
\* range, a cell of the border, and coordinates that name no cell.
SaveCoords(c) ==
    {<<0, 0, 0>>, <<c.width - 1, c.height - 1, c.period - 1>>, <<-1, -1, 0>>,
     <<c.width + 1, 0, 0>>, <<0, 0, c.period>>, <<-1, -1, -1>>}

SaveEntries(c) ==
    [coord : SaveCoords(c), state : {ALIVE, DEAD}, reason : {"Assume", "Deduce"}]

\* The entries at most MaxStack long.
Stacks(c) ==
    UNION {[1..n -> SaveEntries(c)] : n \in 0..MaxStack}

\* The positions a save file may hold: within the entries and the search
\* list of these worlds, and beyond them.
SavePositions == {0, MaxStack + 1}

SaveFiles ==
    UNION {[config : {c}, conflicts : {0}, set_stack : Stacks(c),
            check_index : SavePositions, search_index : SavePositions] : c \in LoadConfigs}

LoadInit ==
    /\ input \in SaveFiles
    /\ output = NoValue
    /\ config = input.config
    /\ state = << >>
    /\ desc = << >>
    /\ gen0_cell_count = 0
    /\ front_cell_count = 0
    /\ trail = << >>
    /\ check_index = 0
    /\ search_index = 0
    /\ conflicts = 0
    /\ status = "Loading"

\* WorldSer::world: the save file is loaded.
Load ==
    /\ status = "Loading"
    /\ output' = world_with_rule(input)
    /\ status' = "Loaded"
    /\ UNCHANGED <<config, state, desc, gen0_cell_count, front_cell_count,
                   trail, check_index, search_index, conflicts, input>>

LoadSpec == LoadInit /\ [][Load]_vars

----------------------------------------------------------------------------
(* C12 *)

RECURSIVE WorldAfter(_, _)
\* The world after the first k entries of a save were replayed: an entry
\* whose cell is unknown is applied with set_cell, any other is passed.
WorldAfter(save, k) ==
    IF k = 0 THEN NewWorld(save.config)
    ELSE LET w == WorldAfter(save, k - 1)
             e == save.set_stack[k]
         IN  IF e.coord \in Coords(save.config) /\ w.state[e.coord] = UNKNOWN
             THEN set_cell(save.config, w, e.coord, e.state, e.reason).w
             ELSE w

\* Entry k names no cell of the world, or a cell that is known with a
\* state other than the entry's when the entry is reached.
Offending(save, k) ==
    \/ save.set_stack[k].coord \notin Coords(save.config)
    \/ WorldAfter(save, k - 1).state[save.set_stack[k].coord]
          \notin {UNKNOWN, save.set_stack[k].state}

Offenders(save) == {k \in 1..Len(save.set_stack) : Offending(save, k)}

\* C12: loading a save returns SetCellErr with the offending coordinate
\* exactly when an entry, replayed in order, names a coordinate without a
\* cell or a cell known with another state; an entry whose cell is known
\* with the same state is skipped and every other entry is applied with
\* set_cell.
C12_RestoreErrors ==
    status = "Loaded" =>
        IF Offenders(input) = {}
        THEN output.ok /\ output.w = WorldAfter(input, Len(input.set_stack))
        ELSE /\ ~output.ok
             /\ ~output.panic
             /\ output.coord = input.set_stack[Min(Offenders(input))].coord

----------------------------------------------------------------------------
(* The search with reduce_max: it goes on after a pattern is reported. *)

\* Configurations with reduce_max: no translation, every rule, symmetry,
\* order, choice policy and bound of the other configurations.
ReduceConfigs ==
    {[c EXCEPT !.reduce_max = TRUE] :
        c \in {d \in Configs : d.dx = 0 /\ d.dy = 0 /\ ~d.overflow_checks}}

ReduceInit ==
    /\ config \in ReduceConfigs
    /\ \E w \in {NewWorld(config)} : Start(w)

\* Some(n) as a max_cell_count.
SomeBound(n) == IF n = 0 THEN ZeroBound ELSE n

\* The search goes on with the bound c and the backtrack b; `reported` is
\* the number of alive cells of generation 0 of the pattern just reported.
Continued(c, b, reported) ==
    /\ config' = c
    /\ output' = <<reported>>
    /\ state' = b.w.state
    /\ desc' = b.w.desc
    /\ gen0_cell_count' = b.w.gen0_cell_count
    /\ front_cell_count' = b.w.front_cell_count
    /\ trail' = b.w.trail
    /\ check_index' = b.check_index
    /\ conflicts' = conflicts + b.conflicts
    /\ status' = IF b.ok THEN "Searching" ELSE "Exhausted"
    /\ UNCHANGED <<search_index, input>>

\* Reduce-max of section 4.4: after a pattern is reported, max_cell_count
\* becomes gen0_cell_count - 1 and the search continues; it leaves the
\* reported pattern by a backtrack, as it leaves a trivial one.
Continue ==
    /\ status = "Found"
    /\ config.reduce_max
    /\ \E c \in {[config EXCEPT !.max_cell_count = SomeBound(gen0_cell_count - 1)]} :
          \E b \in {backtrack(c, World, 0)} :
             Continued(c, b, Gen0AliveNum(config, state))

ReduceNext == Proceed \/ Conflict \/ Assume \/ Found \/ Trivial \/ Continue

ReduceSpec == ReduceInit /\ [][ReduceNext]_vars

----------------------------------------------------------------------------
(* C13 *)

\* C13: with reduce_max, a pattern reported after another one has strictly
\* fewer alive cells of generation 0 than the pattern reported just
\* before it (output holds, as <<n>>, the number of the pattern reported before).
C13_ReduceMaxDecreases ==
    status = "Found" /\ output # NoValue => Gen0AliveNum(config, state) < output[1]

\* A state of C13: a second pattern is reported, after a first with more
\* than one alive cell.
C13_Witness ==
    /\ status = "Found"
    /\ output # NoValue
    /\ Gen0AliveNum(config, state) >= 1
    /\ Gen0AliveNum(config, state) < output[1]

----------------------------------------------------------------------------
(* C14 *)

MaxLongPeriod == 4

\* Configurations of narrow worlds with longer periods: a period with a
\* proper divisor other than 1 and with numbers below it that do not
\* divide it.
PeriodConfigs ==
    [width : {1}, height : 1..MaxSize, period : 1..MaxLongPeriod, dx : {0}, dy : {0},
     transform : {"Id"}, symmetry : {"C1"}, rule : {"B3/S23", "B03/S23"},
     order : {"Automatic"}, new_state : NewStates,
     max_cell_count : {0}, non_empty_front : {FALSE}, overflow_checks : {FALSE},
     reduce_max : {FALSE}]

PeriodInit ==
    /\ config \in PeriodConfigs
    /\ \E w \in {NewWorld(config)} : Start(w)

PeriodSpec == PeriodInit /\ [][Next]_vars

\* The proper divisors of p.
ProperDivisors(p) == {t \in 1..(p - 1) : \E k \in 1..p : k * t = p}

\* The positions of the world: a column of cells, one of every generation.
Positions(c) == {<<cell[1], cell[2]>> : cell \in Coords(c)}

\* Some position has at generation t another state than at generation 0.
DiffersAt(c, st, t) ==
    \E pos \in Positions(c) : st[<<pos[1], pos[2], 0>>] # st[<<pos[1], pos[2], t>>]

\* C14: nontrivial() returns true if and only if generation 0 has an alive
\* cell and, for every proper divisor t of the period, some position has
\* at generation t another state than at generation 0.
C14_NontrivialMeaning ==
    status # "Panicked" =>
        (nontrivial(config, World) <=>
            /\ Gen0AliveNum(config, state) >= 1
            /\ \A t \in ProperDivisors(config.period) : DiffersAt(config, state, t))

\* A state of C14: every cell of the search list is known, generation 0
\* has an alive cell and differs from generation 1, and nontrivial()
\* returns false because the pattern has the period 2, a proper divisor
\* of the period.
C14_Witness ==
    /\ status # "Panicked"
    /\ get_unknown(config, state) = NoCell
    /\ Gen0AliveNum(config, state) >= 1
    /\ 2 \in ProperDivisors(config.period)
    /\ DiffersAt(config, state, 1)
    /\ ~DiffersAt(config, state, 2)
    /\ ~nontrivial(config, World)

----------------------------------------------------------------------------
(* The command line (args.rs).  A string is a sequence of characters; the  *)
(* input is the arguments X, Y and P with the transformation and the       *)
(* symmetry, the output what Args::parse returns for them.                 *)

MaxLen == 2

Digits == {"0", "1", "2"}

\* The characters of the arguments: digits, a sign and a letter.
Chars == Digits \cup {"-", "a"}

RECURSIVE StringsOfLen(_, _)
\* The strings of n characters of a set.
StringsOfLen(chars, n) ==
    IF n = 0 THEN {<< >>}
    ELSE {Append(s, ch) : s \in StringsOfLen(chars, n - 1), ch \in chars}

\* The strings of at most max characters of a set.
Strings(chars, max) == UNION {StringsOfLen(chars, n) : n \in 0..max}

\* char::is_ascii_digit
is_ascii_digit(ch) == ch \in Digits

\* is_positive
is_positive(s) ==
    /\ \A k \in 1..Len(s) : is_ascii_digit(s[k])
    /\ s # <<"0">>
    /\ ~(Len(s) > 0 /\ s[1] = "-")

\* The digit a character is.
DigitValue(ch) == CASE ch = "0" -> 0 [] ch = "1" -> 1 [] ch = "2" -> 2

RECURSIVE Decimal(_)
\* The number a sequence of digits denotes.
Decimal(s) ==
    IF s = << >> THEN 0
    ELSE 10 * Decimal(SubSeq(s, 1, Len(s) - 1)) + DigitValue(s[Len(s)])

\* Err(ParseIntError) and Ok(n) of str::parse.
ParseErr == [ok |-> FALSE, value |-> 0]

ParseOk(n) == [ok |-> TRUE, value |-> n]

\* str::parse::<isize>: an optional sign and at least one digit.
ParseInt(s) ==
    IF s = << >> THEN ParseErr
    ELSE IF s[1] = "-" THEN
        IF Len(s) > 1 /\ \A k \in 2..Len(s) : is_ascii_digit(s[k])
        THEN ParseOk(0 - Decimal(Tail(s))) ELSE ParseErr
    ELSE IF \A k \in 1..Len(s) : is_ascii_digit(s[k]) THEN ParseOk(Decimal(s))
    ELSE ParseErr

\* What Args::parse returns: a clap error of a kind, a panic, or Ok with
\* the world of the sizes.
ArgsResult(kind, size) == [kind |-> kind, size |-> size]

\* Args::parse after the validators: the values are parsed and unwrapped,
\* then the shape is checked and the world is built.
ParseValues(a) ==
    LET width == ParseInt(a.X)
        height == ParseInt(a.Y)
        period == ParseInt(a.P)
    IN  IF ~width.ok \/ ~height.ok \/ ~period.ok THEN ArgsResult("Panic", << >>)
        ELSE IF ~SquareCheck(width.value, height.value, a.transform, a.symmetry)
        THEN ArgsResult("InvalidValue", << >>)
        ELSE ArgsResult("Ok", <<width.value, height.value, period.value>>)

\* Args::parse: get_matches_safe runs the validators of X, Y and P.
ArgsParse(a) ==
    IF ~is_positive(a.X) \/ ~is_positive(a.Y) \/ ~is_positive(a.P)
    THEN ArgsResult("ValueValidation", << >>)
    ELSE ParseValues(a)

\* Command lines that vary the shape, the transformation and the symmetry.
ShapeInputs ==
    [X : {<<"1">>, <<"2">>}, Y : {<<"1">>, <<"2">>}, P : {<<"1">>},
     transform : Transforms, symmetry : Symmetries]

\* Command lines that vary one of X, Y and P over all strings.
StringInputs ==
    UNION {[X : Strings(Chars, MaxLen), Y : {<<"1">>}, P : {<<"1">>}, transform : {"Id", "Rotate90"}, symmetry : {"C1"}],
           [X : {<<"1">>}, Y : Strings(Chars, MaxLen), P : {<<"1">>}, transform : {"Id", "Rotate90"}, symmetry : {"C1"}],
           [X : {<<"1">>}, Y : {<<"1">>}, P : Strings(Chars, MaxLen), transform : {"Id", "Rotate90"}, symmetry : {"C1"}]}

\* The variables the command line does not use.
NoWorld ==
    /\ config = NoValue
    /\ state = << >>
    /\ desc = << >>
    /\ gen0_cell_count = 0
    /\ front_cell_count = 0
    /\ trail = << >>
    /\ check_index = 0
    /\ search_index = 0
    /\ conflicts = 0

ArgsInit ==
    /\ input \in ShapeInputs \cup StringInputs
    /\ output = NoValue
    /\ status = "Parsing"
    /\ NoWorld

Parse ==
    /\ status = "Parsing"
    /\ output' = ArgsParse(input)
    /\ status' = "Parsed"
    /\ UNCHANGED <<config, state, desc, gen0_cell_count, front_cell_count, trail,
                   check_index, search_index, conflicts, input>>

ArgsSpec == ArgsInit /\ [][Parse]_vars

----------------------------------------------------------------------------
(* C15 *)

\* A product of reflections exchanges the two axes when the reflection in
\* the diagonal occurs in it an odd number of times.
ExchangesAxes(names) ==
    Cardinality({k \in 1..Len(names) : names[k] = "Diag"}) % 2 = 1

\* The group of the symmetry has an element that exchanges the two axes.
NeedsSquare(sy) == \E g \in Generators(sy) : ExchangesAxes(g)

\* C15: when the values are parsed, the construction is refused with an
\* invalid-value error, and no world is built, if and only if width and
\* height differ and the transformation (a rotation by 90 or 270, a flip
\* in the diagonal or the antidiagonal) or the symmetry needs a square.
C15_SquareWorldCheck ==
    status = "Parsed" /\ output.kind \notin {"ValueValidation", "Panic"} =>
        (output.kind = "InvalidValue" /\ output.size = << >>
            <=> /\ ParseInt(input.X) # ParseInt(input.Y)
                /\ \/ input.transform \in {"Rotate90", "Rotate270", "FlipDiag", "FlipAntidiag"}
                   \/ NeedsSquare(input.symmetry))

\* A state of C15: a world that is not square is refused because of its
\* symmetry alone.
C15_Witness ==
    /\ status = "Parsed"
    /\ output.kind = "InvalidValue"
    /\ ParseInt(input.X) # ParseInt(input.Y)
    /\ input.transform = "FlipRow"
    /\ input.symmetry = "D2Antidiag"

----------------------------------------------------------------------------
(* C16 *)

\* A decimal numeral that denotes a positive integer.
PositiveNumeral(s) ==
    /\ Len(s) >= 1
    /\ \A k \in 1..Len(s) : s[k] \in Digits
    /\ Decimal(s) >= 1

\* C16 (the claim as stated): an argument X, Y or P that is not a decimal
\* numeral of a positive integer is rejected by the validator, so that no
\* value is parsed and no world is built.
C16_PositiveArguments ==
    status = "Parsed" /\ (\E s \in {input.X, input.Y, input.P} : ~PositiveNumeral(s)) =>
        output.kind = "ValueValidation"

----------------------------------------------------------------------------
(* Rule strings (parse.rs).  The characters left to read are a sequence;   *)
(* Chars::push puts a character back in front of them.                     *)

MaxRuleLen == 4

\* The characters of the rule strings: B and S in both cases, the slash,
\* a digit, a context letter of the digit in both cases and the sign of a
\* complement.
RuleChars == {"B", "b", "S", "s", "/", "2", "a", "A", "-"}

\* The result of a parser: Ok with b and s, or Err.
RuleOk(b, s) == [ok |-> TRUE, b |-> b, s |-> s]

RuleErr == [ok |-> FALSE, b |-> {}, s |-> {}]

\* The result of parse_bs_life and parse_bs_isotropic, and what is left.
BsOk(bs, rest) == [ok |-> TRUE, bs |-> bs, rest |-> rest]

BsErr == [ok |-> FALSE, bs |-> {}, rest |-> << >>]

\* c.is_digit(9) and the number of the digit.
LifeDigits == {"2"}

RECURSIVE parse_bs_life(_, _)
\* parse_bs_life, with the numbers read so far.
parse_bs_life(chars, bs) ==
    IF chars = << >> THEN BsOk(bs, chars)
    ELSE IF Head(chars) \in LifeDigits
         THEN parse_bs_life(Tail(chars), bs \cup {DigitValue(Head(chars))})
    ELSE IF Head(chars) \in {"/", "S", "s"} THEN BsOk(bs, chars)
    ELSE BsErr

\* The end of parse_life and of parse_isotropic after b is read, with the
\* result s of the parser of the numbers.
AfterS(b, s) ==
    IF ~s.ok THEN RuleErr
    ELSE IF s.rest = << >> THEN RuleOk(b.bs, s.bs)
    ELSE RuleErr

\* The characters after the optional slash.
AfterSlash(chars) == IF Head(chars) = "/" THEN Tail(chars) ELSE chars

\* parse_life
parse_life(rule) ==
    IF rule = << >> \/ Head(rule) \notin {"B", "b"} THEN RuleErr
    ELSE LET b == parse_bs_life(Tail(rule), {})
         IN  IF ~b.ok THEN RuleErr
             ELSE IF b.rest = << >> THEN RuleErr
             ELSE LET chars == AfterSlash(b.rest)
                  IN  IF chars = << >> \/ Head(chars) \notin {"S", "s"} THEN RuleErr
                      ELSE AfterS(b, parse_bs_life(Tail(chars), {}))

\* The digits parse_bs_isotropic reads keys after.
KeyDigits == {"1", "2", "3", "4", "5", "6", "7"}

\* all_keys of parse_keys! for a digit.
AllKeys(digit) ==
    CASE digit = "1" -> {"c", "e"}
      [] digit = "2" -> {"c", "e", "k", "a", "i", "n"}
      [] digit = "3" -> {"c", "e", "k", "a", "i", "n", "y", "q", "j", "r"}
      [] digit = "4" -> {"c", "e", "k", "a", "i", "n", "y", "q", "j", "r", "t", "w", "z"}
      [] digit = "5" -> {"c", "e", "k", "a", "i", "n", "y", "q", "j", "r"}
      [] digit = "6" -> {"c", "e", "k", "a", "i", "n"}
      [] digit = "7" -> {"c", "e"}

\* The neighbourhoods parse_keys! gives a key of a digit.
KeyMasks(digit, key) ==
    CASE digit = "1" ->
          (CASE key = "c" -> {1, 4, 32, 128}
             [] key = "e" -> {2, 8, 16, 64})
      [] digit = "2" ->
          (CASE key = "c" -> {5, 33, 132, 160}
             [] key = "e" -> {10, 18, 72, 80}
             [] key = "k" -> {12, 17, 34, 48, 65, 68, 130, 136}
             [] key = "a" -> Masks2a
             [] key = "i" -> {24, 66}
             [] key = "n" -> {36, 129})
      [] digit = "3" ->
          (CASE key = "c" -> {37, 133, 161, 164}
             [] key = "e" -> {26, 74, 82, 88}
             [] key = "k" -> {50, 76, 81, 138}
             [] key = "a" -> {11, 22, 104, 208}
             [] key = "i" -> {7, 41, 148, 224}
             [] key = "n" -> {13, 21, 35, 97, 134, 168, 176, 196}
             [] key = "y" -> {49, 69, 140, 162}
             [] key = "q" -> {38, 44, 52, 100, 131, 137, 145, 193}
             [] key = "j" -> {14, 19, 42, 73, 84, 112, 146, 200}
             [] key = "r" -> {25, 28, 56, 67, 70, 98, 152, 194})
      [] digit = "4" ->
          (CASE key = "c" -> {165}
             [] key = "e" -> {90}
             [] key = "k" -> {51, 77, 85, 113, 142, 170, 178, 204}
             [] key = "a" -> {15, 23, 43, 105, 150, 212, 232, 240}
             [] key = "i" -> {29, 99, 184, 198}
             [] key = "n" -> {39, 45, 135, 149, 169, 180, 225, 228}
             [] key = "y" -> {53, 101, 141, 163, 166, 172, 177, 197}
             [] key = "q" -> {54, 108, 139, 209}
             [] key = "j" -> {58, 78, 83, 89, 92, 114, 154, 202}
             [] key = "r" -> {27, 30, 75, 86, 106, 120, 210, 216}
             [] key = "t" -> {57, 71, 156, 226}
             [] key = "w" -> {46, 116, 147, 201}
             [] key = "z" -> {60, 102, 153, 195})
      [] digit = "5" ->
          (CASE key = "c" -> {91, 94, 122, 218}
             [] key = "e" -> {167, 173, 181, 229}
             [] key = "k" -> {117, 174, 179, 205}
             [] key = "a" -> {47, 151, 233, 244}
             [] key = "i" -> {31, 107, 214, 248}
             [] key = "n" -> {59, 79, 87, 121, 158, 220, 234, 242}
             [] key = "y" -> {93, 115, 186, 206}
             [] key = "q" -> {62, 110, 118, 124, 155, 203, 211, 217}
             [] key = "j" -> {55, 109, 143, 171, 182, 213, 236, 241}
             [] key = "r" -> {61, 103, 157, 185, 188, 199, 227, 230})
      [] digit = "6" ->
          (CASE key = "c" -> {95, 123, 222, 250}
             [] key = "e" -> {175, 183, 237, 245}
             [] key = "k" -> {119, 125, 187, 190, 207, 221, 238, 243}
             [] key = "a" -> {63, 111, 159, 215, 235, 246, 249, 252}
             [] key = "i" -> {189, 231}
             [] key = "n" -> {126, 219})
      [] digit = "7" ->
          (CASE key = "c" -> {127, 223, 251, 254}
             [] key = "e" -> {191, 239, 247, 253})

\* The number of characters at the front of chars that are keys.
KeyPrefix(all_keys, chars) ==
    IF \A k \in 1..Len(chars) : chars[k] \in all_keys THEN Len(chars)
    ELSE Min({k \in 1..Len(chars) : chars[k] \notin all_keys}) - 1

\* The keys parse_keys reads.
ReadKeys(all_keys, chars) == {chars[k] : k \in 1..KeyPrefix(all_keys, chars)}

\* parse_keys: the keys chosen after a digit and the characters left.
parse_keys(digit, chars) ==
    IF chars = << >> THEN [keys |-> AllKeys(digit), rest |-> chars]
    ELSE IF Head(chars) = "-"
         THEN [keys |-> AllKeys(digit) \ ReadKeys(AllKeys(digit), Tail(chars)),
               rest |-> SubSeq(chars, KeyPrefix(AllKeys(digit), Tail(chars)) + 2, Len(chars))]
    ELSE IF Head(chars) \in AllKeys(digit)
         THEN [keys |-> ReadKeys(AllKeys(digit), chars),
               rest |-> SubSeq(chars, KeyPrefix(AllKeys(digit), chars) + 1, Len(chars))]
    ELSE [keys |-> AllKeys(digit), rest |-> chars]

RECURSIVE parse_bs_isotropic(_, _)
\* parse_bs_isotropic, with the neighbourhoods read so far.
parse_bs_isotropic(chars, bs) ==
    IF chars = << >> THEN BsOk(bs, chars)
    ELSE IF Head(chars) = "0" THEN parse_bs_isotropic(Tail(chars), bs \cup {0})
    ELSE IF Head(chars) = "8" THEN parse_bs_isotropic(Tail(chars), bs \cup {255})
    ELSE IF Head(chars) \in KeyDigits
         THEN LET r == parse_keys(Head(chars), Tail(chars))
              IN  parse_bs_isotropic(r.rest,
                      bs \cup UNION {KeyMasks(Head(chars), key) : key \in r.keys})
    ELSE IF Head(chars) \in {"/", "S", "s"} THEN BsOk(bs, chars)
    ELSE BsErr

\* parse_isotropic that reads an S in upper case only.
parse_isotropic_upper_s(rule) ==
    IF rule = << >> \/ Head(rule) \notin {"B", "b"} THEN RuleErr
    ELSE LET b == parse_bs_isotropic(Tail(rule), {})
         IN  IF ~b.ok THEN RuleErr
             ELSE IF b.rest = << >> THEN RuleErr
             ELSE LET chars == AfterSlash(b.rest)
                  IN  IF chars = << >> \/ Head(chars) # "S" THEN RuleErr
                      ELSE AfterS(b, parse_bs_isotropic(Tail(chars), {}))

\* parse_isotropic
parse_isotropic(rule) ==
    IF rule = << >> \/ Head(rule) \notin {"B", "b"} THEN RuleErr
    ELSE LET b == parse_bs_isotropic(Tail(rule), {})
         IN  IF ~b.ok THEN RuleErr
             ELSE IF b.rest = << >> THEN RuleErr
             ELSE LET chars == AfterSlash(b.rest)
                  IN  IF chars = << >> \/ Head(chars) \notin {"S", "s"} THEN RuleErr
                      ELSE AfterS(b, parse_bs_isotropic(Tail(chars), {}))

\* What the two parsers return for a rule string.
ParseBoth(rule) == [life |-> parse_life(rule), isotropic |-> parse_isotropic(rule)]

RuleInit ==
    /\ input \in Strings(RuleChars, MaxRuleLen)
    /\ output = NoValue
    /\ status = "Parsing"
    /\ NoWorld

ParseRule ==
    /\ status = "Parsing"
    /\ output' = ParseBoth(input)
    /\ status' = "Parsed"
    /\ UNCHANGED <<config, state, desc, gen0_cell_count, front_cell_count, trail,
                   check_index, search_index, conflicts, input>>

RuleSpec == RuleInit /\ [][ParseRule]_vars

----------------------------------------------------------------------------
(* C17 *)

\* A letter in the other case.
OtherCase(ch) ==
    CASE ch = "B" -> "b" [] ch = "b" -> "B" [] ch = "S" -> "s" [] ch = "s" -> "S"
      [] ch = "a" -> "A" [] ch = "A" -> "a" [] OTHER -> ch

\* The strings that differ from a rule string in the case of one letter.
CaseChanged(rule) == {[rule EXCEPT ![k] = OtherCase(rule[k])] : k \in 1..Len(rule)}

\* C17 (the claim as stated): changing the case of a letter of a rule
\* string (B, S or a context letter) changes neither whether parse_life
\* and parse_isotropic accept it nor the b and s they return.
C17_CaseInsensitive ==
    status = "Parsed" =>
        \A changed \in CaseChanged(input) : ParseBoth(changed) = output

\* The letters B and S in the other case.
OtherCaseBS(ch) ==
    CASE ch = "B" -> "b" [] ch = "b" -> "B" [] ch = "S" -> "s" [] ch = "s" -> "S"
      [] OTHER -> ch

\* C17 (amended): changing the case of a B or an S of a rule string changes
\* neither whether parse_life and parse_isotropic accept it nor the b and s
\* they return; a context letter is read in lower case only, and a string
\* with an upper-case context letter is rejected.
C17_CaseOfBS ==
    status = "Parsed" =>
        /\ \A k \in 1..Len(input) :
              ParseBoth([input EXCEPT ![k] = OtherCaseBS(input[k])]) = output
        /\ (\E k \in 1..Len(input) : input[k] = "A") =>
              ~output.life.ok /\ ~output.isotropic.ok

\* A state of C17: an accepted rule with a context letter, b and S in
\* different cases; with A in place of a it is rejected.
C17_Witness ==
    /\ status = "Parsed"
    /\ input = <<"b", "2", "a", "S">>
    /\ output.isotropic = RuleOk(Masks2a, {})
    /\ ParseBoth(<<"B", "2", "a", "s">>) = output
    /\ ~parse_isotropic(<<"b", "2", "A", "S">>).ok

----------------------------------------------------------------------------
(* Reading the implication table.  The input is the fields of an index:    *)
(* the rule, the dead and the alive neighbours (the others are unknown),   *)
(* the successor slot and the self slot; the output is the entry.          *)

MaxUnknown == 2

\* The valid descriptors with at most MaxUnknown unknown neighbours.
TableIndices ==
    {i \in [rule : RuleNames, dead : Masks, alive : Masks,
            succ_state : {UNKNOWN, ALIVE, DEAD}, st : {UNKNOWN, ALIVE, DEAD}] :
        /\ And(i.dead, i.alive) = 0
        /\ PopCount(255 - i.dead - i.alive) <= MaxUnknown}

TableInit ==
    /\ input \in TableIndices
    /\ output = NoValue
    /\ status = "Reading"
    /\ NoWorld

ReadTable ==
    /\ status = "Reading"
    /\ output' = [flags |-> TableEntry(input.rule, input.dead, input.alive,
                                       input.succ_state, input.st)]
    /\ status' = "Read"
    /\ UNCHANGED <<config, state, desc, gen0_cell_count, front_cell_count, trail,
                   check_index, search_index, conflicts, input>>

TableSpec == TableInit /\ [][ReadTable]_vars

----------------------------------------------------------------------------
(* C18 *)

\* The next state of a cell with state self (Alive or Dead) whose alive
\* neighbours are those of mask, under the b and s of rule r.
RuleGives(r, mask, self) ==
    IF self = DEAD THEN (IF mask \in RuleB(r) THEN ALIVE ELSE DEAD)
    ELSE (IF mask \in RuleS(r) THEN ALIVE ELSE DEAD)

RECURSIVE SubMasks(_)
\* The numbers whose bits are bits of u.
SubMasks(u) ==
    IF u = 0 THEN {0}
    ELSE SubMasks(u - HighBit(u)) \cup {m + HighBit(u) : m \in SubMasks(u - HighBit(u))}

\* The completions of an index: every unknown neighbour, and an unknown
\* self, made alive or dead.
Completions(i) ==
    [mask : {i.alive + m : m \in SubMasks(255 - i.dead - i.alive)},
     self : IF i.st = UNKNOWN THEN {ALIVE, DEAD} ELSE {i.st}]

\* Every completion of the index gives the next state s.
AllGive(i, s) == \A k \in Completions(i) : RuleGives(i.rule, k.mask, k.self) = s

\* C18: an entry whose successor slot is unknown has SUCC_ALIVE if and
\* only if every completion of the unknown neighbours and of an unknown
\* self makes the next state alive, SUCC_DEAD if and only if every
\* completion makes it dead, and no other flag.
C18_SuccessorImplication ==
    status = "Read" /\ input.succ_state = UNKNOWN =>
        /\ SUCC_ALIVE \in output.flags <=> AllGive(input, ALIVE)
        /\ SUCC_DEAD \in output.flags <=> AllGive(input, DEAD)
        /\ output.flags \subseteq {SUCC_ALIVE, SUCC_DEAD}

\* A state of C18: with two unknown neighbours and an unknown self, every
\* completion of a rule that has births and survivals makes the next
\* state dead.
C18_Witness ==
    /\ status = "Read"
    /\ input.succ_state = UNKNOWN
    /\ input.st = UNKNOWN
    /\ input.rule = "B3/S23"
    /\ PopCount(255 - input.dead - input.alive) = 2
    /\ output.flags = {SUCC_DEAD}
    /\ AllGive(input, DEAD)

----------------------------------------------------------------------------
(* C19 *)

\* The completions of an index that produce its known successor state.
Producing(i) ==
    {k \in Completions(i) : RuleGives(i.rule, k.mask, k.self) = i.succ_state}

\* The flags of C19 for an index with a producing completion: the state
\* every producing completion gives to the unknown self and to each
\* unknown neighbour.
Forced(i) ==
    (IF i.st # UNKNOWN THEN {}
     ELSE IF \A k \in Producing(i) : k.self = ALIVE THEN {SELF_ALIVE}
     ELSE IF \A k \in Producing(i) : k.self = DEAD THEN {SELF_DEAD}
     ELSE {})
    \cup UNION {IF \A k \in Producing(i) : Bit(k.mask, n) = 1 THEN {NbhdAlive(n)}
                ELSE IF \A k \in Producing(i) : Bit(k.mask, n) = 0 THEN {NbhdDead(n)}
                ELSE {} : n \in BitsOf(255 - i.dead - i.alive)}

\* C19: an entry whose successor slot is known has CONFLICT if and only
\* if no completion produces that successor state; otherwise its flags are
\* SELF_ALIVE (SELF_DEAD) for an unknown self that is alive (dead) in
\* every producing completion, and the flag of alive (dead) for each
\* unknown neighbour that is alive (dead) in every producing completion,
\* and it has no flag for a slot that is known.
C19_KnownSuccessorImplication ==
    status = "Read" /\ input.succ_state # UNKNOWN =>
        /\ CONFLICT \in output.flags <=> Producing(input) = {}
        /\ CONFLICT \notin output.flags => output.flags = Forced(input)

\* A state of C19: an entry without CONFLICT that forces the unknown self
\* and an unknown neighbour.
C19_Witness ==
    /\ status = "Read"
    /\ input.succ_state # UNKNOWN
    /\ input.st = UNKNOWN
    /\ PopCount(255 - input.dead - input.alive) = 2
    /\ CONFLICT \notin output.flags
    /\ output.flags \cap {SELF_ALIVE, SELF_DEAD} # {}
    /\ Cardinality(output.flags) >= 2
    /\ output.flags = Forced(input)

----------------------------------------------------------------------------
(* C20 *)

\* The implications of an entry for a cell, in the order of consistify:
\* the successor, the cell itself, the neighbours 0 to 7 that exist; each
\* is the target and the state the entry forces on it.
Implication(target, st) == [target |-> target, state |-> st]

SuccImplications(c, cell, flags) ==
    IF SUCC_ALIVE \in flags THEN <<Implication(Succ(c, cell), ALIVE)>>
    ELSE IF SUCC_DEAD \in flags THEN <<Implication(Succ(c, cell), DEAD)>>
    ELSE << >>

SelfImplications(cell, flags) ==
    IF SELF_ALIVE \in flags THEN <<Implication(cell, ALIVE)>>
    ELSE IF SELF_DEAD \in flags THEN <<Implication(cell, DEAD)>>
    ELSE << >>

RECURSIVE NbhdImplications(_, _, _, _)
NbhdImplications(c, cell, flags, i) ==
    IF i > 7 THEN << >>
    ELSE (IF Nbhd(c, cell, i) = NoCell THEN << >>
          ELSE IF NbhdAlive(i) \in flags THEN <<Implication(Nbhd(c, cell, i), ALIVE)>>
          ELSE IF NbhdDead(i) \in flags THEN <<Implication(Nbhd(c, cell, i), DEAD)>>
          ELSE << >>)
         \o NbhdImplications(c, cell, flags, i + 1)

Implications(c, cell, flags) ==
    SuccImplications(c, cell, flags) \o SelfImplications(cell, flags)
        \o NbhdImplications(c, cell, flags, 0)

RECURSIVE ApplyAll(_, _, _)
\* The implications of a list applied by set_cell with reason Deduce, one
\* after the other until one fails.
ApplyAll(c, r, list) ==
    IF ~r.ok \/ list = << >> THEN r
    ELSE ApplyAll(c, set_cell(c, r.w, Head(list).target, Head(list).state, "Deduce"),
                  Tail(list))

\* What C20 says of consistify with result r at a cell whose entry is
\* flags.  A set_cell that panics on a counter ends the program inside
\* set_cell; the states of the targets are those of a run that goes on.
Consistified(c, w, cell, flags, r) ==
    IF CONFLICT \in flags THEN ~r.ok /\ r.w = w
    ELSE /\ flags \cap {SUCC_ALIVE, SUCC_DEAD} # {} => Succ(c, cell) # NoCell
         /\ r = ApplyAll(c, [w |-> w, ok |-> TRUE], Implications(c, cell, flags))
         /\ r.ok /\ ~r.w.panic =>
               \A k \in 1..Len(Implications(c, cell, flags)) :
                   r.w.state[Implications(c, cell, flags)[k].target]
                       = Implications(c, cell, flags)[k].state

\* C20: consistify of a cell of the search range returns false if the
\* entry of the cell's descriptor has CONFLICT; otherwise it applies every
\* implication of the entry (successor, self, each neighbour) by set_cell
\* with reason Deduce and returns true if and only if all these set_cell
\* succeed.
C20_ConsistifyApplies ==
    status = "Searching" =>
        \A cell \in {x \in Coords(config) : InRange(config, x)} :
            \A r \in {consistify(config, World, cell)} :
                Consistified(config, World, cell, impl_table(config.rule, desc[cell]), r)

\* consistify of the cell sets the cell itself and a neighbour, and
\* returns true.
SetsSelfAndNeighbour(c, w, cell, flags, r) ==
    /\ CONFLICT \notin flags
    /\ flags \cap {SELF_ALIVE, SELF_DEAD} # {}
    /\ \E i \in 0..7 :
          /\ flags \cap {NbhdAlive(i), NbhdDead(i)} # {}
          /\ Nbhd(c, cell, i) # NoCell
          /\ w.state[Nbhd(c, cell, i)] = UNKNOWN
          /\ r.w.state[Nbhd(c, cell, i)] # UNKNOWN
    /\ r.ok
    /\ ~r.w.panic
    /\ r.w.state[cell] # UNKNOWN

\* A state of C20: an unknown cell whose entry forces the cell itself and
\* an unknown neighbour; consistify sets both and returns true.
C20_Witness ==
    /\ status = "Searching"
    /\ \E cell \in {x \in Coords(config) : InRange(config, x) /\ state[x] = UNKNOWN} :
          SetsSelfAndNeighbour(config, World, cell, impl_table(config.rule, desc[cell]),
                               consistify(config, World, cell))

----------------------------------------------------------------------------
(* C21 *)

\* The two bits of a state in a slot: Unknown 00, Alive 01, Dead 10.
SlotBits(st) == IF st = ALIVE THEN 1 ELSE IF st = DEAD THEN 2 ELSE 0

\* The pattern old XOR new.
SlotDelta(old, st) == Xor(SlotBits(old), SlotBits(st))

\* The pattern in slot i of the neighbours: its low bit is bit 4 + i of
\* the descriptor, its high bit is bit 12 + i.
InNbhdSlot(pattern, i) == Shl(pattern % 2, 4 + i) + Shl(pattern \div 2, 12 + i)

\* The slots i of cell n with n.nbhd[i] = cell.
SlotsOf(c, n, cell) == {i \in 0..7 : Nbhd(c, n, i) = cell}

\* What update_desc(cell, old, st) is to XOR into the descriptor of cell n.
DescDelta(c, n, cell, old, st) ==
    (IF n = cell THEN SlotDelta(old, st) ELSE 0)
    + (IF Pred(c, cell) # NoCell /\ n = Pred(c, cell) THEN Shl(SlotDelta(old, st), 2) ELSE 0)
    + (IF SlotsOf(c, n, cell) = {} THEN 0
       ELSE InNbhdSlot(SlotDelta(old, st), CHOOSE i \in SlotsOf(c, n, cell) : TRUE))

RECURSIVE TotalDelta(_, _, _, _, _)
\* The patterns of the cells of a set, whose states go from old to new,
\* XORed together for the descriptor of cell n.
TotalDelta(c, n, cells, old, new) ==
    IF cells = {} THEN 0
    ELSE LET cell == CHOOSE x \in cells : TRUE
         IN  Xor(DescDelta(c, n, cell, old[cell], new[cell]),
                 TotalDelta(c, n, cells \ {cell}, old, new))

\* The cells whose state differs between old and new.
Changed(c, old, new) == {cell \in Coords(c) : old[cell] # new[cell]}

\* The descriptors went from d to e by the patterns of the cells whose
\* state changed, each a cell of the search range, and by nothing else.
UpdatedDesc(c, old, new, d, e) ==
    /\ \A cell \in Changed(c, old, new) :
          InRange(c, cell) /\ \A n \in Coords(c) : Cardinality(SlotsOf(c, n, cell)) <= 1
    /\ \A n \in Coords(c) :
          e[n] = Xor(d[n], TotalDelta(c, n, Changed(c, old, new), old, new))

\* C21: every update_desc(cell, old, new) of a step XORs the pattern
\* old XOR new into the self slot of the cell, the successor slot of its
\* predecessor and slot i of every neighbour n with n.nbhd[i] = cell, and
\* changes no other bit of a descriptor: after the step the descriptors
\* differ from those before by these patterns of the cells that changed.
C21_UpdateDescFrame ==
    [][status' # "Panicked" => UpdatedDesc(config, state, state', desc, desc')]_vars

\* A state of C21: an alive cell of the trail with a predecessor other
\* than itself, whose successor slot holds the pattern 01 of the cell.
C21_Witness ==
    /\ status = "Searching"
    /\ \E k \in 1..Len(trail) :
          /\ state[trail[k].cell] = ALIVE
          /\ Pred(config, trail[k].cell) \notin {NoCell, trail[k].cell}
          /\ (desc[Pred(config, trail[k].cell)] \div 4) % 4 = SlotBits(ALIVE)

----------------------------------------------------------------------------
(* C22: propagation is first in, first out over the trail. *)

\* The number of Assume entries of a trail.
Assumes(tr) == Cardinality({k \in 1..Len(tr) : tr[k].reason = "Assume"})

\* The first position at which the trail tr2 differs from the trail tr1.
FirstDiff(tr1, tr2) ==
    CHOOSE k \in 1..(Len(tr2) + 1) :
        /\ \A j \in 1..(k - 1) : j <= Len(tr1) /\ tr1[j] = tr2[j]
        /\ k <= Len(tr2) => (k > Len(tr1) \/ tr1[k] # tr2[k])

\* A step of propagation: no backtrack, no new assumption, the search
\* goes on.
PropagationStep ==
    /\ status = "Searching" /\ status' = "Searching"
    /\ conflicts' = conflicts
    /\ Assumes(trail') = Assumes(trail)

\* A step that assumes a new cell.
AssumeStep ==
    /\ status = "Searching"
    /\ conflicts' = conflicts
    /\ Assumes(trail') > Assumes(trail)

\* A step that backtracks and goes on with a flipped entry.
BacktrackStep ==
    /\ status = "Searching" /\ status' = "Searching"
    /\ conflicts' > conflicts

\* Propagation takes the oldest unprocessed entry and advances
\* check_index by one.
AdvancesByOne ==
    PropagationStep =>
        /\ check_index < Len(trail)
        /\ check_index' = check_index + 1
        /\ SubSeq(trail', 1, Len(trail)) = trail

\* A cell is assumed, and Found is reported, only when every entry of the
\* trail has been processed.
NothingPending ==
    /\ AssumeStep => check_index = Len(trail)
    /\ status' = "Found" => check_index' = Len(trail')

\* The entry a backtrack has flipped is still to be processed.
FlippedPending ==
    BacktrackStep => check_index' < FirstDiff(trail, trail')

\* C22, the part about the order of propagation: check_index advances
\* one entry at a time from the oldest unprocessed entry, a new cell is
\* assumed only when no entry is left unprocessed, and Found is never
\* reported while check_index < Len(trail).
C22_FifoOrder == [][AdvancesByOne /\ NothingPending]_vars

\* C22: propagation is first in, first out over the trail, and every
\* entry of the trail, the one flipped by a backtrack included, is
\* consistified before a new cell is assumed and before Found is
\* reported.
C22_FifoPropagation == [][AdvancesByOne /\ NothingPending /\ FlippedPending]_vars

----------------------------------------------------------------------------
(* C23: what a backtrack does to the trail. *)

\* The trail a backtrack of the step starts from, as far as its Assume
\* entries go: the step that assumes a cell has pushed its entry.
Pending ==
    IF check_index = Len(trail) /\ get_unknown(config, state) # NoCell
    THEN Append(trail, [cell |-> get_unknown(config, state), reason |-> "Assume",
                        level |-> Level(trail) + 1])
    ELSE trail

\* The positions of the Assume entries of a trail.
AssumePositions(tr) == {k \in 1..Len(tr) : tr[k].reason = "Assume"}

RECURSIVE NthLast(_, _)

\* The j-th largest member of a set of positions, 0 when there is none.
NthLast(S, j) ==
    IF S = {} THEN 0
    ELSE IF j = 1 THEN Max(S)
    ELSE NthLast(S \ {Max(S)}, j - 1)

\* The step has flipped entry k of the trail tr: the entries below it
\* are the same, the entry keeps its cell with the other state and the
\* reason Deduce, no Assume entry is left above it, and check_index is
\* just past it.
Flipped(tr, k) ==
    /\ k > 0
    /\ Len(trail') >= k
    /\ SubSeq(trail', 1, k - 1) = SubSeq(tr, 1, k - 1)
    /\ trail'[k].cell = tr[k].cell
    /\ trail'[k].reason = "Deduce"
    /\ IF k <= Len(trail)
       THEN state'[tr[k].cell] = Not(state[tr[k].cell])
       ELSE \E st \in Choices(config) : state'[tr[k].cell] = Not(st)
    /\ \A i \in (k + 1)..Len(trail') : trail'[i].reason # "Assume"
    /\ check_index' = k

----------------------------------------------------------------------------
(* C24: the two counters. *)

\* The number of unknown or alive cells with the front flag.
FrontLive(c, st) ==
    Cardinality({cell \in Coords(c) : is_front(c, cell) /\ st[cell] \in {UNKNOWN, ALIVE}})

\* The counters hold what their comments say and have not been
\* decremented below zero.
CountersExact ==
    /\ status # "Panicked"
    /\ gen0_cell_count = Gen0Alive(config, state)
    /\ front_cell_count = FrontLive(config, state)

\* C24: in every reachable state, for every rule, gen0_cell_count is the
\* number of alive cells of generation 0, front_cell_count is the number
\* of unknown or alive cells with the front flag, and neither counter is
\* decremented below zero.
C24_CountersExact == CountersExact

\* The same for the rules without B0.
C24_WithoutB0 == ~has_b0(config.rule) => CountersExact

----------------------------------------------------------------------------
(* C25: the cells World::new fixes. *)

\* The cell is in the search list.
Listed(c, cell) == \E k \in 1..Len(search_list(c)) : search_list(c)[k] = cell

\* A cell of the search range in generation 0 whose predecessor is
\* outside the world.
LacksPred(c, cell) == InRange(c, cell) /\ cell[3] = 0 /\ Pred(c, cell) = NoCell

\* A cell of the search range in the last generation whose successor is
\* outside the world.
LacksSucc(c, cell) ==
    InRange(c, cell) /\ cell[3] = c.period - 1 /\ Succ(c, cell) = NoCell

\* The cell is fixed to its background state: not free, not in the
\* search list.
Fixed(c, cell) ==
    /\ state[cell] = Background(c, cell)
    /\ ~Free(c, cell)
    /\ ~Listed(c, cell)

\* The world is as World::new has left it.
Constructed == status = "Searching" /\ trail = <<>> /\ conflicts = 0

\* C25 as stated: a cell of generation 0 whose predecessor is outside the
\* world is fixed to its background state, and so is a cell of the last
\* generation whose successor is outside the world.
C25_FixedCells ==
    \A cell \in Coords(config) :
        LacksPred(config, cell) \/ LacksSucc(config, cell) => Fixed(config, cell)

\* C25, amended: a cell of generation 0 whose predecessor is outside the
\* world is fixed to its background state, not free and not in the
\* search list.  A cell of the last generation whose successor is outside
\* the world only has no successor link: unless its predecessor or a
\* symmetric cell is outside too, it is free, in the search list and
\* Unknown after construction.
C25_FixedByPredecessor ==
    \A cell \in Coords(config) :
        /\ LacksPred(config, cell) => Fixed(config, cell)
        /\ /\ LacksSucc(config, cell)
           /\ ~LacksPred(config, cell)
           /\ \A k \in 1..Len(SymCoords(config, cell)) :
                 InRange(config, SymCoords(config, cell)[k])
           => /\ Free(config, cell)
              /\ Listed(config, cell)
              /\ Constructed => state[cell] = UNKNOWN

\* A new world with a cell fixed for its predecessor and a free cell
\* without a successor.
C25_Witness ==
    /\ Constructed
    /\ \E cell \in Coords(config) : LacksPred(config, cell) /\ Fixed(config, cell)
    /\ \E cell \in Coords(config) :
          LacksSucc(config, cell) /\ Free(config, cell) /\ state[cell] = UNKNOWN

----------------------------------------------------------------------------
(* parse_bs_isotropic on one digit and its keys. *)

MaxKeys == 1

\* The strings read: 0, 8, or a digit with or without a minus sign and
\* with at most MaxKeys of its keys.
BsInputs ==
    {<<"0">>, <<"8">>} \cup
    UNION {{<<d>> \o neg \o keys : neg \in {<< >>, <<"-">>},
                                  keys \in Strings(AllKeys(d), MaxKeys)} :
           d \in KeyDigits}

BsInit ==
    /\ input \in BsInputs
    /\ output = NoValue
    /\ status = "Parsing"
    /\ NoWorld

ParseBs ==
    /\ status = "Parsing"
    /\ output' = parse_bs_isotropic(input, {})
    /\ status' = "Parsed"
    /\ UNCHANGED <<config, state, desc, gen0_cell_count, front_cell_count, trail,
                   check_index, search_index, conflicts, input>>

BsSpec == BsInit /\ [][ParseBs]_vars

----------------------------------------------------------------------------
(* C26 *)

\* The number a digit of a rule string stands for.
NeighbourCount(d) ==
    CASE d = "0" -> 0 [] d = "1" -> 1 [] d = "2" -> 2 [] d = "3" -> 3 [] d = "4" -> 4
      [] d = "5" -> 5 [] d = "6" -> 6 [] d = "7" -> 7 [] d = "8" -> 8

\* The neighbourhoods with n neighbours alive.
WithCount(n) == {m \in Masks : PopCount(m) = n}

\* The bit of the neighbour at an offset.
OffsetBit(o) == (CHOOSE i \in 1..8 : NbhdOffsets[i] = o) - 1

RECURSIVE MaskOfBits(_)
\* The neighbourhood with these bits set.
MaskOfBits(S) ==
    IF S = {} THEN 0
    ELSE LET i == CHOOSE i \in S : TRUE IN Pow2(i) + MaskOfBits(S \ {i})

\* The neighbourhood turned by a quarter.
Rotated(m) ==
    MaskOfBits({OffsetBit(<<NbhdOffsets[i + 1][2], -NbhdOffsets[i + 1][1]>>) : i \in BitsOf(m)})

\* The neighbourhood reflected in an axis.
Mirrored(m) ==
    MaskOfBits({OffsetBit(<<NbhdOffsets[i + 1][1], -NbhdOffsets[i + 1][2]>>) : i \in BitsOf(m)})

\* The images of a neighbourhood under the 8 rotations and reflections.
MaskOrbit(m) ==
    {m, Rotated(m), Rotated(Rotated(m)), Rotated(Rotated(Rotated(m))),
     Mirrored(m), Mirrored(Rotated(m)), Mirrored(Rotated(Rotated(m))),
     Mirrored(Rotated(Rotated(Rotated(m))))}

\* The keys a string names after its digit.
KeysNamed(chars) == {chars[k] : k \in 2..Len(chars)} \ {"-"}

\* The string without its minus sign.
Unsigned(chars) == SelectSeq(chars, LAMBDA ch : ch # "-")

\* bs is made of n whole orbits of neighbourhoods with d neighbours alive.
WholeOrbits(bs, d, n) ==
    /\ bs \subseteq WithCount(NeighbourCount(d))
    /\ \A m \in bs : MaskOrbit(m) \subseteq bs
    /\ Cardinality({MaskOrbit(m) : m \in bs}) = n

\* What the claim says of the neighbourhoods bs read from chars.
KeysPartition(chars, bs) ==
    IF chars[1] \notin KeyDigits THEN bs = WithCount(NeighbourCount(chars[1]))
    ELSE IF KeysNamed(chars) = {} THEN bs = WithCount(NeighbourCount(chars[1]))
    ELSE IF chars[2] # "-"
         THEN WholeOrbits(bs, chars[1], Cardinality(KeysNamed(chars)))
    ELSE bs = WithCount(NeighbourCount(chars[1]))
                 \ parse_bs_isotropic(Unsigned(chars), {}).bs

\* C26: for each digit 1..7 a key stands for exactly one orbit, under the
\* 8 rotations and reflections, of neighbourhoods with that many
\* neighbours alive; the sets of two keys are disjoint and the sets of
\* all keys of the digit make up every such neighbourhood (the keys
\* left by a minus sign give the complement of the keys named).  The
\* digit 0 gives {0x00} and the digit 8 gives {0xff}.
C26_KeysPartition ==
    status = "Parsed" =>
        /\ output.ok
        /\ output.rest = << >>
        /\ KeysPartition(input, output.bs)
        /\ input = <<"0">> => output.bs = {0}
        /\ input = <<"8">> => output.bs = {255}

\* The keys of the digit 4 without t: nine orbits of 8, 4, 2 and 1
\* neighbourhoods that leave the four of t.
C26_Witness ==
    /\ status = "Parsed"
    /\ input = <<"4", "-", "t">>
    /\ Cardinality(output.bs) = 66

----------------------------------------------------------------------------
(* C27: search_index and World::get_unknown. *)

\* The driver is about to choose a cell to branch on.
Choosing ==
    /\ status = "Searching"
    /\ check_index = Len(trail)
    /\ get_unknown(config, state) # NoCell

\* The next unknown cell of the search list from position si (from 0).
NextUnknownFrom(c, st, si) ==
    FirstUnknown(SubSeq(search_list(c), si + 1, Len(search_list(c))), st)

\* C27: whenever the driver chooses a cell to branch on, right after a
\* backtrack too, every cell of the search list before search_index is
\* known, so the next unknown cell from search_index is the cell
\* World::get_unknown returns.
C27_SearchIndex ==
    Choosing =>
        /\ \A k \in 1..search_index : state[search_list(config)[k]] # UNKNOWN
        /\ NextUnknownFrom(config, state, search_index) = get_unknown(config, state)

----------------------------------------------------------------------------
(* C28: consistify and a missing successor. *)

\* The successor slot of a descriptor: bits 2..3.
SuccSlot(d) == (d \div 4) % 4

\* The cells without a successor link.
WithoutSucc(c) == {cell \in Coords(c) : Succ(c, cell) = NoCell}

\* C28: in every reachable state a cell without a successor link has a
\* known successor slot in its descriptor, and the entry of the table for
\* its descriptor carries neither SUCC_ALIVE nor SUCC_DEAD, so consistify
\* does not reach cell.succ.unwrap() for it.
C28_NoMissingSuccessor ==
    \A cell \in WithoutSucc(config) :
        /\ SuccSlot(desc[cell]) # 0
        /\ impl_table(config.rule, desc[cell]) \cap {SUCC_ALIVE, SUCC_DEAD} = {}

\* consistify has run on a cell of the trail that has no successor link,
\* and the search goes on.
C28_Witness ==
    /\ status = "Searching"
    /\ \E k \in 1..check_index :
          /\ trail[k].cell \in WithoutSucc(config)
          /\ trail[k].reason = "Assume"

----------------------------------------------------------------------------
(* C29: the border cells. *)

\* The cells of the border: x or y is -1, the width or the height.
Border(c) == {cell \in Coords(c) : ~InRange(c, cell)}

\* The cells that lack one of the eight neighbour links.
LacksNeighbour(c) == {cell \in Coords(c) : \E i \in 0..7 : Nbhd(c, cell, i) = NoCell}

\* C29: in every reachable state each border cell holds its background
\* state; the cells that lack a neighbour are border cells, so
\* update_desc, which runs on the cells whose state changes, never
\* unwraps a missing neighbour link (no step ends in that panic; a build
\* without overflow checks has no other panic).
C29_BorderFixed ==
    /\ \A cell \in Border(config) : state[cell] = Background(config, cell)
    /\ LacksNeighbour(config) \subseteq Border(config)
    /\ ~config.overflow_checks => status # "Panicked"

\* After assumptions, deductions, symmetry setting and a backtrack the
\* trail holds a deduced cell next to the border.
C29_Witness ==
    /\ status = "Searching"
    /\ conflicts > 0
    /\ config.symmetry # "C1"
    /\ \E k \in 1..Len(trail) : trail[k].reason = "Assume"
    /\ \E k \in 1..Len(trail) : trail[k].reason = "Sym"
    /\ \E k \in 1..Len(trail) :
          /\ trail[k].reason = "Deduce"
          /\ \E i \in 0..7 : Nbhd(config, trail[k].cell, i) \in Border(config)

----------------------------------------------------------------------------
(* C30: the world a save file is restored to. *)

RECURSIVE ReplayedOk(_, _, _)
\* Every set_cell that world_with_rule calls from entry k on, in world w,
\* returns true.
ReplayedOk(save, w, k) ==
    IF k > Len(save.set_stack) THEN TRUE
    ELSE LET cell == Lookup(save.config, save.set_stack[k].coord)
         IN  IF cell = NoCell \/ cell = OutOfBounds THEN TRUE
             ELSE IF w.state[cell] # UNKNOWN THEN ReplayedOk(save, w, k + 1)
             ELSE \A r \in {set_cell(save.config, w, cell, save.set_stack[k].state,
                                     save.set_stack[k].reason)} :
                     r.ok /\ ReplayedOk(save, r.w, k + 1)

\* WorldSer::world has returned Ok.
Restored == status = "Loaded" /\ output.ok /\ ~output.panic

\* C30: a world that WorldSer::world returns with Ok is well formed:
\* every set_cell of the replay returned true, check_index is at most the
\* length of the restored trail and search_index at most the length of
\* the search list.
C30_RestoredWellFormed ==
    Restored =>
        /\ ReplayedOk(input, NewWorld(input.config), 1)
        /\ output.check_index <= Len(output.w.trail)
        /\ output.search_index <= Len(search_list(input.config))

============================================================================
